---- MODULE Spec2Model ----
(***************************************************************************)
(* The remote task orchestrator of the autonomous coder pipeline           *)
(* (src/autonomous_coder_pipeline.py) as a state machine.                  *)
(*                                                                         *)
(* Every request is served by one asynchronous generator                   *)
(* (Pipe._handle_coding_task), called a flow here.  The orchestrator runs  *)
(* on one asyncio event loop: code between two suspension points (an       *)
(* `await asyncio.sleep`, or a `yield` that hands a chunk to the consumer  *)
(* of the stream) runs without interleaving.  The variable cur holds the   *)
(* coroutine that is running such a segment (<<>> when the event loop is   *)
(* idle); sleeps are woken, yields are resumed or closed, and              *)
(* cancellations are delivered only when the loop is idle.                 *)
(*                                                                         *)
(* The provisioning backend (Proxmox), the guest of each VM and the agent  *)
(* process in it are the environment: every API call may succeed or        *)
(* raise, a guest command completes at some later moment, the agent        *)
(* appends lines to its progress feed.                                     *)
(*                                                                         *)
(* The agent process itself (src/main.py) is modelled beside it: the loop  *)
(* of CodingAgent.run with the conversation it builds, one call of         *)
(* _execute_tool with the path and command checks of the tools, and the    *)
(* polling waits of the orchestrator with a clock.  Two requests served    *)
(* at once, for the VM ids they get, have a specification as well.  Each   *)
(* part has its own specification over the variables of the module.        *)
(***************************************************************************)
EXTENDS Integers, Sequences, FiniteSets, TLC

\* ---------------------------------------------------------------- bounds
\* Most lines the agent of one VM appends to its progress feed.
MaxFeed == 2
\* Most direct destroy_vm calls of the teardown-only specification.
MaxDirectCalls == 3
\* Most lines of the progress feed in the relay-only specification.
MaxRelayFeed == 3
\* AgentConfig.max_iterations of the agent specification (the program's
\* default is 50).
MaxIterations == 2
\* Most tool calls in one model response.
MaxToolCalls == 2
\* Most components of the path argument of a tool call.
MaxPathLen == 3
\* Most tokens of the command of an execute_command call.
MaxCmdTokens == 3
\* The cap of _execute_tool on the length of a result (10000 in the program)
\* and the length of its truncation marker, scaled down.
OutputCap == 2
MarkerLen == 1
\* The bound of a polling wait (timeout of _wait_for_task and _wait_for_ip,
\* MAX_TASK_DURATION), in sleeps of the wait.
WaitBound == 4

\* ------------------------------------------------------ program constants
\* ProxmoxManager._vm_pool_start
VmPoolStart == 10000

\* The requests served: one request, beside on_shutdown.
Flows == {1}
\* The on_shutdown coroutine.
ShutdownCoro == 0
Coros == Flows \cup {ShutdownCoro}
\* The VM ids a flow can get: one per flow, from the pool start on.  The vmid
\* 0 stands for None (`if task.vmid:` is false for both).
VmIds == VmPoolStart..(VmPoolStart + Cardinality(Flows) - 1)
\* The requests of the specification of concurrent tasks, and their VM ids.
PoolFlows == {1, 2}
PoolVmIds == VmPoolStart..(VmPoolStart + Cardinality(PoolFlows) - 1)

\* TaskStatus; "none" is a flow whose task is not in Pipe.tasks.
TaskStatus ==
  {"pending", "provisioning", "running", "completing", "completed", "failed", "cancelled"}
Terminal == {"completed", "failed", "cancelled"}

\* One line of the progress feed, by what the orchestrator can tell of it:
\* a whitespace-only line, a line with the [TASK_COMPLETE] marker, a line with
\* the [TASK_FAILED] marker followed by reason a or b or by nothing but
\* whitespace, any other line.
LineKinds == {"info", "blank", "complete", "failed_a", "failed_b", "failed_empty"}
\* The failure markers the agent process writes (src/main.py): exhaustion
\* (line 963), a run that ended without completion (line 1020), a failed
\* clone (line 887), an exception that reached main (line 1023).
AgentFailedKinds == {"failed_exhausted", "failed_incomplete", "failed_clone", "failed_error"}
FailedKinds == {"failed_a", "failed_b", "failed_empty"} \cup AgentFailedKinds

VARIABLES
  cur,              \* <<>>: event loop idle; <<c>>: coroutine c is running
  pc,               \* [Coros -> position]
  proxmoxConfigured,\* Pipe.proxmox is not None (on_startup saw a password)
  hasDefaultModel,  \* Pipe.valves has an attribute DEFAULT_MODEL
  proxmoxClient,    \* ProxmoxManager._proxmox is not None
  tasksOrder,       \* Pipe.tasks: the registered flows in insertion order
  status,           \* CodingTask.status
  task_vmid,        \* CodingTask.vmid
  vm_ip,            \* CodingTask.vm_ip ("none" for None)
  result,           \* CodingTask.result
  error,            \* CodingTask.error
  progress_log,     \* CodingTask.progress_log
  cav,              \* create_agent_vm's locals: vmid and the caught exception
  xc,               \* exec_command's frame: the caller and the returned stdout
  stream,           \* _stream_agent_progress's locals
  dv,               \* destroy_vm's frame of each coroutine
  sdList,           \* on_shutdown: the part of list(self.tasks.items()) left
  vms,              \* Proxmox: the VM ids that exist
  guest,            \* per VM: its files and its agent process
  gx,               \* per flow: the guest command submitted by exec.post
  hist,             \* per flow: what has happened (read by the properties only)
  apc,              \* the agent process (src/main.py): its position
  iteration,        \* CodingAgent.run: the loop variable
  messages,         \* CodingAgent.messages
  tool_calls,       \* message.tool_calls of the response at hand
  tc_idx,           \* the position of the for loop over message.tool_calls
  task_completed,   \* CodingAgent.task_completed
  agent_feed,       \* /opt/agent/progress.log as the agent process writes it
  agent_result,     \* /opt/agent/result.json exists
  ahist,            \* the agent's run so far (read by the properties only)
  tpc,              \* one tool call: its position in _execute_tool
  tcall,            \* one tool call: the name and the arguments
  tresult,          \* one tool call: the text _execute_tool returns
  touched,          \* one tool call: the paths and commands given to the system
  wait              \* one polling wait of the orchestrator with its clock

vars ==
  <<cur, pc, proxmoxConfigured, hasDefaultModel, proxmoxClient, tasksOrder, status,
    task_vmid, vm_ip, result, error, progress_log, cav, xc, stream, dv, sdList, vms,
    guest, gx, hist, apc, iteration, messages, tool_calls, tc_idx, task_completed,
    agent_feed, agent_result, ahist, tpc, tcall, tresult, touched, wait>>

configVars == <<proxmoxConfigured, hasDefaultModel>>
taskVars == <<tasksOrder, status, task_vmid, vm_ip, result, error, progress_log>>
envVars == <<vms, guest, gx>>
toolVars == <<tpc, tcall, tresult, touched>>
agentVars == <<apc, iteration, messages, tool_calls, tc_idx, task_completed,
               agent_feed, agent_result, ahist, toolVars>>

Idle == cur = <<>>
Running(c) == cur = <<c>>

\* ---------------------------------------------------------------- helpers
NoFrame == [vmid |-> 0, force |-> TRUE, ret |-> "none", owner |-> 0,
            stop |-> "none", forced |-> "none", del |-> "none"]
NoGuestCmd == [cmd |-> "none", vmid |-> 0, done |-> FALSE, out |-> <<>>, json |-> "none"]
\* config: /opt/agent/task_config.json is missing ("none"), being written by
\* the echo command ("writing"), or written.
\* name: the flow of the task the VM was cloned for (vm_name, "agent-" and
\* the task id; 0 for no VM).
FreshGuest == [feed |-> <<>>, agent |-> FALSE, result_json |-> FALSE, config |-> "none",
               name |-> 0]
NoCav == [vmid |-> 0, e |-> "none"]
\* exitcode: the answer exec_command returns holds an exit code.
NoExec == [ctx |-> "none", stdout |-> <<>>, json |-> "none", exitcode |-> FALSE]
\* cursor0 and log0 are read by the properties only: last_line_count and
\* len(task.progress_log) as they were when the poll at hand returned.
NoStream == [last_line_count |-> 0, content |-> <<>>, idx |-> 0,
             cursor0 |-> 0, log0 |-> 0]
NoHist == [destroyCalls |-> 0, cloned |-> FALSE, reported |-> FALSE,
           deadline |-> FALSE]

\* ProxmoxManager._get_next_vmid: the first id from the pool start on that no
\* existing VM uses.
RECURSIVE NextFrom(_, _)
NextFrom(vmid, used_ids) ==
  IF vmid \in used_ids THEN NextFrom(vmid + 1, used_ids) ELSE vmid
\* GetNextVmid that does not look at the ids in use.
GetNextVmid_PoolStart(used_ids) == VmPoolStart
GetNextVmid(used_ids) == NextFrom(VmPoolStart, used_ids)

\* log_content.strip().split("\n") if log_content.strip() else []: the lines
\* from the first to the last one that is not whitespace only.
NonBlank(content) == {i \in 1..Len(content) : content[i] # "blank"}
Min(S) == CHOOSE x \in S : \A y \in S : x <= y
Max(S) == CHOOSE x \in S : \A y \in S : x >= y
SplitLines(content) ==
  IF NonBlank(content) = {} THEN <<>>
  ELSE SubSeq(content, Min(NonBlank(content)), Max(NonBlank(content)))

\* HasComplete looking at the last line only.
HasComplete_LastLine(content) == Len(content) > 0 /\ content[Len(content)] = "complete"
\* "[TASK_COMPLETE]" in log_content, "[TASK_FAILED]" in log_content
HasComplete(content) == \E i \in 1..Len(content) : content[i] = "complete"
HasFailed(content) == \E i \in 1..Len(content) : content[i] \in FailedKinds
\* The text that follows the failure marker on a line of that kind, without
\* leading whitespace.
ReasonOf(kind) ==
  CASE kind = "failed_a" -> "reason_a"
    [] kind = "failed_b" -> "reason_b"
    [] kind = "failed_exhausted" -> "Max iterations reached without completing task"
    [] kind = "failed_incomplete" -> "Task did not complete successfully"
    [] kind = "failed_clone" -> "Failed to clone repository"
    [] kind = "failed_error" -> "str(e)"
    [] OTHER -> "reason_empty"
\* The whole text of a line of that kind, as the reason it makes when the
\* match runs into it.
TextOf(kind) ==
  CASE kind = "info" -> "text_info"
    [] kind = "complete" -> "text_complete"
    [] kind = "failed_a" -> "text_failed_a"
    [] kind = "failed_b" -> "text_failed_b"
    [] kind = "failed_exhausted" -> "text_failed_exhausted"
    [] kind = "failed_incomplete" -> "text_failed_incomplete"
    [] kind = "failed_clone" -> "text_failed_clone"
    [] kind = "failed_error" -> "text_failed_error"
    [] OTHER -> "text_failed_empty"
\* FirstFailedIndex taking the last failure marker of the content.
LastFailedIndex(content) == Max({i \in 1..Len(content) : content[i] \in FailedKinds})
FirstFailedIndex(content) == Min({i \in 1..Len(content) : content[i] \in FailedKinds})
\* re.search(r'\[TASK_FAILED\]\s*(.*)', log_content).group(1): the search
\* stops at the first marker; \s* passes whitespace, line ends included, so
\* after a marker with nothing but whitespace on its line the group is the
\* text of the next line that is not blank (or empty at the end of the
\* content); (.*) ends at the end of a line.
FirstFailedReason(content) ==
  LET i == FirstFailedIndex(content)
      later == {j \in (i + 1)..Len(content) : content[j] # "blank"}
  IN IF content[i] # "failed_empty" THEN ReasonOf(content[i])
     ELSE IF later = {} THEN "reason_empty"
     ELSE TextOf(content[Min(later)])
MarkerReasons == {"reason_a", "reason_b"}

\* modelCalls: the calls of _get_completion; executed: the ids of the calls
\* whose tool was executed; exceptions: the exceptions raised in iterations;
\* handled: those of them that reached the handler of lines 952-960; levels:
\* the level of each entry of the feed, as ProgressLogger.log got it (kept
\* where the tools write the entries).
NoAgentHist == [modelCalls |-> 0, executed |-> <<>>, exceptions |-> 0, handled |-> 0,
                levels |-> <<>>]
\* No tool call is looked at.
NoCall == [name |-> "none"]
NoResult == [kind |-> "none", len |-> 0, marker |-> FALSE]
ToolOff ==
  /\ tpc = "off"
  /\ tcall = NoCall
  /\ tresult = NoResult
  /\ touched = {}
\* No wait is looked at with its clock.
NoWait == [kind |-> "none", pc |-> "off", elapsed |-> 0, asked |-> FALSE,
           allFailed |-> TRUE, outcome |-> "none"]
WaitOff == wait = NoWait

\* Where the agent process is taken as the lines it appends to the feed
\* (AgentLog), its own state is left out.
AgentOff ==
  /\ apc = "off"
  /\ iteration = 0
  /\ messages = <<>>
  /\ tool_calls = <<>>
  /\ tc_idx = 0
  /\ task_completed = FALSE
  /\ agent_feed = <<>>
  /\ agent_result = FALSE
  /\ ahist = NoAgentHist
  /\ ToolOff
  /\ WaitOff

\* ------------------------------------------------------------------- Init
Init ==
  /\ AgentOff
  /\ cur = <<>>
  /\ pc = [c \in Coros |-> "init"]
  /\ proxmoxConfigured \in BOOLEAN
  /\ hasDefaultModel \in BOOLEAN
  /\ proxmoxClient = FALSE
  /\ tasksOrder = <<>>
  /\ status = [f \in Flows |-> "none"]
  /\ task_vmid = [f \in Flows |-> 0]
  /\ vm_ip = [f \in Flows |-> "none"]
  /\ result = [f \in Flows |-> "none"]
  /\ error = [f \in Flows |-> "none"]
  /\ progress_log = [f \in Flows |-> <<>>]
  /\ cav = [f \in Flows |-> NoCav]
  /\ xc = [f \in Flows |-> NoExec]
  /\ stream = [f \in Flows |-> NoStream]
  /\ dv = [c \in Coros |-> NoFrame]
  /\ sdList = <<>>
  /\ vms = {}
  /\ guest = [v \in VmIds |-> FreshGuest]
  /\ gx = [f \in Flows |-> NoGuestCmd]
  /\ hist = [f \in Flows |-> NoHist]

\* ------------------------------------------- the handlers of the try block
\* except Exception as e: (lines 555-559), up to its yield.
ExceptHandler(f, e) ==
  /\ status' = [status EXCEPT ![f] = "failed"]
  /\ error' = [error EXCEPT ![f] = e]
  /\ pc' = [pc EXCEPT ![f] = "y_failed"]
  /\ hist' = [hist EXCEPT ![f].reported = TRUE]
  /\ cur' = <<>>

\* except asyncio.CancelledError: (lines 550-552), up to its yield.
CancelledHandler(f) ==
  /\ status' = [status EXCEPT ![f] = "cancelled"]
  /\ pc' = [pc EXCEPT ![f] = "y_cancelled"]
  /\ hist' = [hist EXCEPT ![f].reported = TRUE]
  /\ cur' = <<>>

\* finally: (lines 561-564), up to its yield, or to the generator's end.
FinallyPc(f) == IF task_vmid[f] # 0 THEN "y_cleanup" ELSE "done"

\* The start of a call destroy_vm(vmid) by coroutine c, for the task of owner.
CallDestroyVm(c, vmid, force, ret, owner) ==
  /\ dv' = [dv EXCEPT ![c] = [NoFrame EXCEPT !.vmid = vmid, !.force = force,
                                            !.ret = ret, !.owner = owner]]
  /\ hist' = [hist EXCEPT ![owner].destroyCalls = @ + 1]
  /\ pc' = [pc EXCEPT ![c] = "d_stop"]
  /\ cur' = <<c>>

\* ------------------------------------------------- Pipe._handle_coding_task
\* The first __anext__ of the generator: lines 452-497.  A request without a
\* repository URL or without a configured backend gets a message and no task;
\* reading self.valves.DEFAULT_MODEL raises AttributeError when Valves has no
\* such attribute (body.get evaluates its default before the call).
Start(f) ==
  /\ Idle /\ pc[f] = "init"
  /\ \E hasRepo \in BOOLEAN :
       IF ~hasRepo THEN
         /\ pc' = [pc EXCEPT ![f] = "y_norepo"]
         /\ UNCHANGED <<tasksOrder, status>>
       ELSE IF ~proxmoxConfigured THEN
         /\ pc' = [pc EXCEPT ![f] = "y_noproxmox"]
         /\ UNCHANGED <<tasksOrder, status>>
       ELSE IF ~hasDefaultModel THEN
         /\ pc' = [pc EXCEPT ![f] = "done"]
         /\ UNCHANGED <<tasksOrder, status>>
       ELSE
         /\ status' = [status EXCEPT ![f] = "pending"]
         /\ tasksOrder' = Append(tasksOrder, f)
         /\ pc' = [pc EXCEPT ![f] = "y_header"]
  /\ UNCHANGED <<cur, configVars, agentVars, wait, proxmoxClient, task_vmid, vm_ip, result,
                 error,
                 progress_log, cav, xc, stream, dv, sdList, envVars, hist>>

\* After the no-repository or not-configured message: return.
ResumeMessage(f) ==
  /\ Idle /\ pc[f] \in {"y_norepo", "y_noproxmox"}
  /\ pc' = [pc EXCEPT ![f] = "done"]
  /\ UNCHANGED <<cur, configVars, agentVars, wait, proxmoxClient, taskVars, cav, xc, stream, dv,
                 sdList, envVars, hist>>

\* Lines 499-502: task.status = PROVISIONING, then the yield.
ResumeHeader(f) ==
  /\ Idle /\ pc[f] = "y_header"
  /\ status' = [status EXCEPT ![f] = "provisioning"]
  /\ pc' = [pc EXCEPT ![f] = "y_prov"]
  /\ UNCHANGED <<cur, configVars, agentVars, wait, proxmoxClient, tasksOrder, task_vmid, vm_ip,
                 result,
                 error, progress_log, cav, xc, stream, dv, sdList, envVars, hist>>

\* Line 504: the call of create_agent_vm.
ResumeProv(f) ==
  /\ Idle /\ pc[f] = "y_prov"
  /\ pc' = [pc EXCEPT ![f] = "cav_client"]
  /\ cur' = <<f>>
  /\ UNCHANGED <<configVars, agentVars, wait, proxmoxClient, taskVars, cav, xc, stream, dv,
                 sdList,
                 envVars, hist>>

\* ------------------------------------------- ProxmoxManager.create_agent_vm
\* Line 137, _get_client: the first call connects and may raise; it is outside
\* create_agent_vm's try.
CavGetClient(f) ==
  /\ Running(f) /\ pc[f] = "cav_client"
  /\ \/ /\ proxmoxClient' = TRUE
        /\ pc' = [pc EXCEPT ![f] = "cav_nextid"]
        /\ UNCHANGED <<cur, status, error, hist>>
     \/ /\ ~proxmoxClient
        /\ ExceptHandler(f, "connect")
        /\ UNCHANGED proxmoxClient
  /\ UNCHANGED <<configVars, agentVars, wait, tasksOrder, task_vmid, vm_ip, result,
                 progress_log, cav, xc,
                 stream, dv, sdList, envVars>>

\* Line 138, _get_next_vmid: also outside the try.
CavGetNextVmid(f) ==
  /\ Running(f) /\ pc[f] = "cav_nextid"
  /\ \/ /\ cav' = [cav EXCEPT ![f].vmid = GetNextVmid(vms)]
        /\ pc' = [pc EXCEPT ![f] = "cav_clone"]
        /\ UNCHANGED <<cur, status, error, hist>>
     \/ /\ ExceptHandler(f, "resources")
        /\ UNCHANGED cav
  /\ UNCHANGED <<configVars, agentVars, wait, proxmoxClient, tasksOrder, task_vmid, vm_ip,
                 result,
                 progress_log, xc, stream, dv, sdList, envVars>>

\* Lines 145-150, clone.post: the new VM exists from here on.
CavClone(f) ==
  /\ Running(f) /\ pc[f] = "cav_clone"
  /\ \/ /\ vms' = vms \cup {cav[f].vmid}
        /\ guest' = [guest EXCEPT ![cav[f].vmid] = [FreshGuest EXCEPT !.name = f]]
        /\ hist' = [hist EXCEPT ![f].cloned = TRUE]
        /\ pc' = [pc EXCEPT ![f] = "wt_loop"]
        /\ UNCHANGED cav
     \/ /\ cav' = [cav EXCEPT ![f].e = "clone"]
        /\ pc' = [pc EXCEPT ![f] = "cav_except"]
        /\ UNCHANGED <<vms, guest, hist>>
  /\ UNCHANGED <<cur, configVars, agentVars, wait, proxmoxClient, taskVars, xc, stream, dv,
                 sdList, gx>>

\* _wait_for_task, one turn of its loop (lines 192-205).  The sleep is reached
\* when the clone is still running and when the status query raised an
\* error whose text holds "does not exist".
WaitForTask(f) ==
  /\ Running(f) /\ pc[f] = "wt_loop"
  /\ \/ /\ pc' = [pc EXCEPT ![f] = "cav_config"]
        /\ UNCHANGED <<cav, cur>>
     \/ /\ \E e \in {"clone_task_failed", "clone_task_status", "clone_task_timeout"} :
             cav' = [cav EXCEPT ![f].e = e]
        /\ pc' = [pc EXCEPT ![f] = "cav_except"]
        /\ UNCHANGED cur
     \/ /\ pc' = [pc EXCEPT ![f] = "wt_sleep"]
        /\ cur' = <<>>
        /\ UNCHANGED cav
  /\ UNCHANGED <<configVars, agentVars, wait, proxmoxClient, taskVars, xc, stream, dv, sdList,
                 envVars, hist>>

\* asyncio.sleep(2) of _wait_for_task is over.
WaitForTaskWake(f) ==
  /\ Idle /\ pc[f] = "wt_sleep"
  /\ pc' = [pc EXCEPT ![f] = "wt_loop"]
  /\ cur' = <<f>>
  /\ UNCHANGED <<configVars, agentVars, wait, proxmoxClient, taskVars, cav, xc, stream, dv,
                 sdList,
                 envVars, hist>>

\* Lines 157-164: config.put, then status.start.post.
CavConfigure(f) ==
  /\ Running(f) /\ pc[f] = "cav_config"
  /\ \/ /\ pc' = [pc EXCEPT ![f] = "cav_start"]
        /\ UNCHANGED cav
     \/ /\ cav' = [cav EXCEPT ![f].e = "vm_config"]
        /\ pc' = [pc EXCEPT ![f] = "cav_except"]
  /\ UNCHANGED <<cur, configVars, agentVars, wait, proxmoxClient, taskVars, xc, stream, dv,
                 sdList,
                 envVars, hist>>

CavStartVm(f) ==
  /\ Running(f) /\ pc[f] = "cav_start"
  /\ \/ /\ pc' = [pc EXCEPT ![f] = "wi_loop"]
        /\ UNCHANGED cav
     \/ /\ cav' = [cav EXCEPT ![f].e = "vm_start"]
        /\ pc' = [pc EXCEPT ![f] = "cav_except"]
  /\ UNCHANGED <<cur, configVars, agentVars, wait, proxmoxClient, taskVars, xc, stream, dv,
                 sdList,
                 envVars, hist>>

\* _wait_for_ip, one turn of its loop (lines 212-229): an address, None at
\* the bound, or the sleep.  create_agent_vm then returns and lines 517-531
\* set task.vmid and yield.
WaitForIp(f) ==
  /\ Running(f) /\ pc[f] = "wi_loop"
  /\ \/ /\ task_vmid' = [task_vmid EXCEPT ![f] = cav[f].vmid]
        /\ \E ip_address \in {"ip", "none"} : vm_ip' = [vm_ip EXCEPT ![f] = ip_address]
        /\ cav' = [cav EXCEPT ![f] = NoCav]
        /\ pc' = [pc EXCEPT ![f] = "y_vmready"]
        /\ cur' = <<>>
     \/ /\ pc' = [pc EXCEPT ![f] = "wi_sleep"]
        /\ cur' = <<>>
        /\ UNCHANGED <<task_vmid, vm_ip, cav>>
  /\ UNCHANGED <<configVars, agentVars, wait, proxmoxClient, tasksOrder, status, result, error,
                 progress_log, xc, stream, dv, sdList, envVars, hist>>

WaitForIpWake(f) ==
  /\ Idle /\ pc[f] = "wi_sleep"
  /\ pc' = [pc EXCEPT ![f] = "wi_loop"]
  /\ cur' = <<f>>
  /\ UNCHANGED <<configVars, agentVars, wait, proxmoxClient, taskVars, cav, xc, stream, dv,
                 sdList,
                 envVars, hist>>

\* Lines 178-182: except Exception, the cleanup call destroy_vm(vmid).
CavExcept(f) ==
  /\ Running(f) /\ pc[f] = "cav_except"
  /\ CallDestroyVm(f, cav[f].vmid, TRUE, "cav", f)
  /\ UNCHANGED <<configVars, agentVars, wait, proxmoxClient, taskVars, cav, xc, stream, sdList,
                 envVars>>

\* Lines 183-185: whatever destroy_vm did, the caught exception is raised
\* again and reaches the handler of _handle_coding_task.
CavReraise(f) ==
  /\ Running(f) /\ pc[f] \in {"d_ret_ok", "d_ret_raise"} /\ dv[f].ret = "cav"
  /\ ExceptHandler(f, cav[f].e)
  /\ cav' = [cav EXCEPT ![f] = NoCav]
  /\ dv' = [dv EXCEPT ![f] = NoFrame]
  /\ UNCHANGED <<configVars, agentVars, wait, proxmoxClient, tasksOrder, task_vmid, vm_ip,
                 result,
                 progress_log, xc, stream, sdList, envVars>>

\* ------------------------------------- running: inject, launch, stream, result
\* Lines 534-535 and 573-593: task.status = RUNNING, then
\* _inject_and_start_agent calls exec_command with the configuration write
\* (task.vmid is set here, so the ValueError of line 574 is not raised).
ResumeVmReady(f) ==
  /\ Idle /\ pc[f] = "y_vmready"
  /\ status' = [status EXCEPT ![f] = "running"]
  /\ xc' = [xc EXCEPT ![f].ctx = "inject"]
  /\ pc' = [pc EXCEPT ![f] = "x_post"]
  /\ cur' = <<f>>
  /\ UNCHANGED <<configVars, agentVars, wait, proxmoxClient, tasksOrder, task_vmid, vm_ip,
                 result, error,
                 progress_log, cav, stream, dv, sdList, envVars, hist>>

\* exec_command, lines 233-242: agent.exec.post submits the command to the
\* guest.  It raises for a VM that does not exist and may raise otherwise; its
\* answer holds a pid, or none (line 250 then returns the answer as it is).
\* The launch command starts the agent process; the configuration write and
\* the two cat commands come to their end when the guest completes them.
ExecPost(f) ==
  /\ Running(f) /\ pc[f] = "x_post"
  /\ LET v == task_vmid[f]
         ctx == xc[f].ctx
     IN \/ /\ pc' = [pc EXCEPT ![f] = "x_exc"]
           /\ UNCHANGED <<cur, xc, guest, gx>>
        \/ /\ v \in vms
           /\ pc' = [pc EXCEPT ![f] = "x_sleep"]
           /\ cur' = <<>>
           /\ guest' = [guest EXCEPT ![v].agent = IF ctx = "launch" THEN TRUE ELSE @,
                                     ![v].config = IF ctx = "inject" THEN "writing" ELSE @]
           /\ gx' = [gx EXCEPT ![f] = IF ctx \in {"poll", "result"}
                                      THEN [NoGuestCmd EXCEPT !.cmd = ctx, !.vmid = v]
                                      ELSE NoGuestCmd]
           /\ UNCHANGED xc
        \/ /\ v \in vms
           /\ xc' = [xc EXCEPT ![f].stdout = <<>>, ![f].json = "empty"]
           /\ pc' = [pc EXCEPT ![f] = "x_ret"]
           /\ UNCHANGED <<cur, guest, gx>>
  /\ UNCHANGED <<configVars, agentVars, wait, proxmoxClient, taskVars, cav, stream, dv, sdList,
                 vms, hist>>

\* asyncio.sleep(1) of exec_command is over.
ExecWake(f) ==
  /\ Idle /\ pc[f] = "x_sleep"
  /\ pc' = [pc EXCEPT ![f] = "x_status"]
  /\ cur' = <<f>>
  /\ UNCHANGED <<configVars, agentVars, wait, proxmoxClient, taskVars, cav, xc, stream, dv,
                 sdList,
                 envVars, hist>>

\* exec_command, lines 244-249: one exec-status query.  A command the guest has
\* not completed has no exit code and no out-data: stdout is "".  Nothing
\* reads the command's output after this query.  The configuration write has
\* its exit code when the guest has completed it; the launch command (nohup
\* ... &) has completed by the time of the query or has not.
ExecStatus(f) ==
  /\ Running(f) /\ pc[f] = "x_status"
  /\ \/ /\ pc' = [pc EXCEPT ![f] = "x_exc"]
        /\ UNCHANGED xc
     \/ /\ task_vmid[f] \in vms
        /\ \E exited \in IF xc[f].ctx \in {"poll", "result"} THEN {gx[f].done}
                          ELSE IF xc[f].ctx = "inject"
                          THEN {guest[task_vmid[f]].config = "written"}
                          ELSE BOOLEAN :
             xc' = [xc EXCEPT ![f].stdout = IF gx[f].done THEN gx[f].out ELSE <<>>,
                              ![f].json = IF gx[f].done THEN gx[f].json ELSE "blank",
                              ![f].exitcode = exited]
        /\ pc' = [pc EXCEPT ![f] = "x_ret"]
  /\ gx' = [gx EXCEPT ![f] = NoGuestCmd]
  /\ UNCHANGED <<cur, configVars, agentVars, wait, proxmoxClient, taskVars, cav, stream, dv,
                 sdList,
                 vms, guest, hist>>

\* Lines 595-599: the configuration write returned; the launch command.
InjectReturn(f) ==
  /\ Running(f) /\ pc[f] = "x_ret" /\ xc[f].ctx = "inject"
  /\ xc' = [xc EXCEPT ![f] = [NoExec EXCEPT !.ctx = "launch"]]
  /\ pc' = [pc EXCEPT ![f] = "x_post"]
  /\ UNCHANGED <<cur, configVars, agentVars, wait, proxmoxClient, taskVars, cav, stream, dv,
                 sdList,
                 envVars, hist>>

\* Lines 601-611: the launch returned; _stream_agent_progress starts.
LaunchReturn(f) ==
  /\ Running(f) /\ pc[f] = "x_ret" /\ xc[f].ctx = "launch"
  /\ stream' = [stream EXCEPT ![f] = NoStream]
  /\ xc' = [xc EXCEPT ![f] = NoExec]
  /\ pc' = [pc EXCEPT ![f] = "s_loop"]
  /\ UNCHANGED <<cur, configVars, agentVars, wait, proxmoxClient, taskVars, cav, dv, sdList,
                 envVars, hist>>

\* exec_command raised in _inject_and_start_agent: the handler of line 555.
InjectRaise(f) ==
  /\ Running(f) /\ pc[f] = "x_exc" /\ xc[f].ctx \in {"inject", "launch"}
  /\ ExceptHandler(f, "exec")
  /\ xc' = [xc EXCEPT ![f] = NoExec]
  /\ UNCHANGED <<configVars, agentVars, wait, proxmoxClient, tasksOrder, task_vmid, vm_ip,
                 result,
                 progress_log, cav, stream, dv, sdList, envVars>>

\* _stream_agent_progress, the top of its loop (lines 613-624): past the
\* deadline it yields the timeout message, else it polls the feed.
StreamLoop(f) ==
  /\ Running(f) /\ pc[f] = "s_loop"
  /\ \/ /\ pc' = [pc EXCEPT ![f] = "y_timeout"]
        /\ hist' = [hist EXCEPT ![f].deadline = TRUE]
        /\ cur' = <<>>
        /\ UNCHANGED xc
     \/ /\ xc' = [xc EXCEPT ![f].ctx = "poll"]
        /\ pc' = [pc EXCEPT ![f] = "x_post"]
        /\ UNCHANGED <<cur, hist>>
  /\ UNCHANGED <<configVars, agentVars, wait, proxmoxClient, taskVars, cav, stream, dv, sdList,
                 envVars>>

\* Line 617: break after the timeout message; line 542 follows, the call of
\* _get_task_result (task.vmid is set: lines 666-673).
ResumeTimeout(f) ==
  /\ Idle /\ pc[f] = "y_timeout"
  /\ xc' = [xc EXCEPT ![f].ctx = "result"]
  /\ stream' = [stream EXCEPT ![f] = NoStream]
  /\ pc' = [pc EXCEPT ![f] = "x_post"]
  /\ cur' = <<f>>
  /\ UNCHANGED <<configVars, agentVars, wait, proxmoxClient, taskVars, cav, dv, sdList,
                 envVars, hist>>

\* Lines 626-631: the poll returned; lines[last_line_count:] is to deliver.
PollReturn(f) ==
  /\ Running(f) /\ pc[f] = "x_ret" /\ xc[f].ctx = "poll"
  /\ LET lines == SplitLines(xc[f].stdout)
     IN IF Len(lines) > stream[f].last_line_count
        THEN /\ stream' = [stream EXCEPT ![f].content = xc[f].stdout,
                                         ![f].idx = stream[f].last_line_count + 1,
                                         ![f].cursor0 = stream[f].last_line_count,
                                         ![f].log0 = Len(progress_log[f])]
             /\ pc' = [pc EXCEPT ![f] = "s_deliver"]
        ELSE /\ stream' = [stream EXCEPT ![f].content = xc[f].stdout,
                                         ![f].cursor0 = stream[f].last_line_count,
                                         ![f].log0 = Len(progress_log[f])]
             /\ pc' = [pc EXCEPT ![f] = "s_check"]
  /\ xc' = [xc EXCEPT ![f] = NoExec]
  /\ UNCHANGED <<cur, configVars, agentVars, wait, proxmoxClient, taskVars, cav, dv, sdList,
                 envVars, hist>>

\* Deliver without last_line_count = len(lines) after the for loop.
Deliver_CursorStays(f) ==
  /\ Running(f) /\ pc[f] = "s_deliver"
  /\ LET lines == SplitLines(stream[f].content)
         i == stream[f].idx
     IN IF i > Len(lines)
        THEN /\ stream' = [stream EXCEPT ![f].idx = 0]
             /\ pc' = [pc EXCEPT ![f] = "s_check"]
             /\ UNCHANGED cur
        ELSE IF lines[i] = "blank"
        THEN /\ stream' = [stream EXCEPT ![f].idx = i + 1]
             /\ UNCHANGED <<pc, cur>>
        ELSE /\ pc' = [pc EXCEPT ![f] = "y_line"]
             /\ cur' = <<>>
             /\ UNCHANGED stream
  /\ UNCHANGED <<configVars, agentVars, wait, proxmoxClient, taskVars, cav, xc, dv, sdList,
                 envVars, hist>>

\* Lines 631-637, one turn of the for loop: a line that is not blank is
\* yielded; after the last line, last_line_count = len(lines).
Deliver(f) ==
  /\ Running(f) /\ pc[f] = "s_deliver"
  /\ LET lines == SplitLines(stream[f].content)
         i == stream[f].idx
     IN IF i > Len(lines)
        THEN /\ stream' = [stream EXCEPT ![f].last_line_count = Len(lines), ![f].idx = 0]
             /\ pc' = [pc EXCEPT ![f] = "s_check"]
             /\ UNCHANGED cur
        ELSE IF lines[i] = "blank"
        THEN /\ stream' = [stream EXCEPT ![f].idx = i + 1]
             /\ UNCHANGED <<pc, cur>>
        ELSE /\ pc' = [pc EXCEPT ![f] = "y_line"]
             /\ cur' = <<>>
             /\ UNCHANGED stream
  /\ UNCHANGED <<configVars, agentVars, wait, proxmoxClient, taskVars, cav, xc, dv, sdList,
                 envVars, hist>>

\* ResumeLine that replaces task.progress_log by the line.
ResumeLine_Overwrites(f) ==
  /\ Idle /\ pc[f] = "y_line"
  /\ progress_log' = [progress_log EXCEPT
                        ![f] = <<SplitLines(stream[f].content)[stream[f].idx]>>]
  /\ stream' = [stream EXCEPT ![f].idx = @ + 1]
  /\ pc' = [pc EXCEPT ![f] = "s_deliver"]
  /\ cur' = <<f>>
  /\ UNCHANGED <<configVars, agentVars, wait, proxmoxClient, tasksOrder, status, task_vmid,
                 vm_ip, result, error, cav, xc, dv, sdList, envVars, hist>>

\* Line 636, after the yield of a line: task.progress_log.append(line).
ResumeLine(f) ==
  /\ Idle /\ pc[f] = "y_line"
  /\ progress_log' = [progress_log EXCEPT
                        ![f] = Append(@, SplitLines(stream[f].content)[stream[f].idx])]
  /\ stream' = [stream EXCEPT ![f].idx = @ + 1]
  /\ pc' = [pc EXCEPT ![f] = "s_deliver"]
  /\ cur' = <<f>>
  /\ UNCHANGED <<configVars, agentVars, wait, proxmoxClient, tasksOrder, status, task_vmid,
                 vm_ip, result,
                 error, cav, xc, dv, sdList, envVars, hist>>

\* StreamCheck with the failure marker looked for before the success marker.
StreamCheck_FailedFirst(f) ==
  /\ Running(f) /\ pc[f] = "s_check"
  /\ LET log_content == stream[f].content
     IN IF HasFailed(log_content)
        THEN /\ error' = [error EXCEPT ![f] = FirstFailedReason(log_content)]
             /\ xc' = [xc EXCEPT ![f].ctx = "result"]
             /\ stream' = [stream EXCEPT ![f] = NoStream]
             /\ pc' = [pc EXCEPT ![f] = "x_post"]
             /\ UNCHANGED cur
        ELSE IF HasComplete(log_content)
        THEN /\ xc' = [xc EXCEPT ![f].ctx = "result"]
             /\ stream' = [stream EXCEPT ![f] = NoStream]
             /\ pc' = [pc EXCEPT ![f] = "x_post"]
             /\ UNCHANGED <<cur, error>>
        ELSE /\ stream' = [stream EXCEPT ![f].content = <<>>, ![f].cursor0 = 0,
                                         ![f].log0 = 0]
             /\ pc' = [pc EXCEPT ![f] = "s_sleep"]
             /\ cur' = <<>>
             /\ UNCHANGED <<xc, error>>
  /\ UNCHANGED <<configVars, agentVars, wait, proxmoxClient, tasksOrder, status, task_vmid,
                 vm_ip, result,
                 progress_log, cav, dv, sdList, envVars, hist>>

\* Lines 639-652: the marker checks on the whole content read, then the
\* sleep; a break leads to line 542.
StreamCheck(f) ==
  /\ Running(f) /\ pc[f] = "s_check"
  /\ LET log_content == stream[f].content
     IN IF HasComplete(log_content)
        THEN /\ xc' = [xc EXCEPT ![f].ctx = "result"]
             /\ stream' = [stream EXCEPT ![f] = NoStream]
             /\ pc' = [pc EXCEPT ![f] = "x_post"]
             /\ UNCHANGED <<cur, error>>
        ELSE IF HasFailed(log_content)
        THEN /\ error' = [error EXCEPT ![f] = FirstFailedReason(log_content)]
             /\ xc' = [xc EXCEPT ![f].ctx = "result"]
             /\ stream' = [stream EXCEPT ![f] = NoStream]
             /\ pc' = [pc EXCEPT ![f] = "x_post"]
             /\ UNCHANGED cur
        ELSE /\ stream' = [stream EXCEPT ![f].content = <<>>, ![f].cursor0 = 0,
                                         ![f].log0 = 0]
             /\ pc' = [pc EXCEPT ![f] = "s_sleep"]
             /\ cur' = <<>>
             /\ UNCHANGED <<xc, error>>
  /\ UNCHANGED <<configVars, agentVars, wait, proxmoxClient, tasksOrder, status, task_vmid,
                 vm_ip, result,
                 progress_log, cav, dv, sdList, envVars, hist>>

\* PollRaise with the cursor set back to 0 by a poll that raised.
PollRaise_ResetsCursor(f) ==
  /\ Running(f) /\ pc[f] = "x_exc" /\ xc[f].ctx = "poll"
  /\ xc' = [xc EXCEPT ![f] = NoExec]
  /\ stream' = [stream EXCEPT ![f].last_line_count = 0]
  /\ pc' = [pc EXCEPT ![f] = "s_sleep"]
  /\ cur' = <<>>
  /\ UNCHANGED <<configVars, agentVars, wait, proxmoxClient, taskVars, cav, dv, sdList,
                 envVars, hist>>

\* Lines 649-652: a poll that raised is logged; the sleep follows.
PollRaise(f) ==
  /\ Running(f) /\ pc[f] = "x_exc" /\ xc[f].ctx = "poll"
  /\ xc' = [xc EXCEPT ![f] = NoExec]
  /\ pc' = [pc EXCEPT ![f] = "s_sleep"]
  /\ cur' = <<>>
  /\ UNCHANGED <<configVars, agentVars, wait, proxmoxClient, taskVars, cav, stream, dv, sdList,
                 envVars, hist>>

\* asyncio.sleep(check_interval) is over.
StreamWake(f) ==
  /\ Idle /\ pc[f] = "s_sleep"
  /\ pc' = [pc EXCEPT ![f] = "s_loop"]
  /\ cur' = <<f>>
  /\ UNCHANGED <<configVars, agentVars, wait, proxmoxClient, taskVars, cav, xc, stream, dv,
                 sdList,
                 envVars, hist>>

\* _get_task_result, lines 675-679: json.loads of the stdout, and any
\* exception (the relay raised, the text is no JSON) becomes the dict
\* {"success": False, "error": ...}.  '{}' (no result file) loads as {}.
ResultOf(raised, json) ==
  IF raised \/ json = "blank" THEN "retrieval_error" ELSE json

\* Lines 542-548: whatever _get_task_result returned is the result, and
\* the task is COMPLETED; the yield of the formatted result.
GetTaskResultReturn(f) ==
  /\ Running(f) /\ pc[f] \in {"x_ret", "x_exc"} /\ xc[f].ctx = "result"
  /\ result' = [result EXCEPT ![f] = ResultOf(pc[f] = "x_exc", xc[f].json)]
  /\ status' = [status EXCEPT ![f] = "completed"]
  /\ hist' = [hist EXCEPT ![f].reported = TRUE]
  /\ xc' = [xc EXCEPT ![f] = NoExec]
  /\ pc' = [pc EXCEPT ![f] = "y_result"]
  /\ cur' = <<>>
  /\ UNCHANGED <<configVars, agentVars, wait, proxmoxClient, tasksOrder, task_vmid, vm_ip,
                 error,
                 progress_log, cav, stream, dv, sdList, envVars>>

\* ------------------------------------------------------------ the finally
\* After the result, failure or cancellation message: the finally block.
ResumeReported(f) ==
  /\ Idle /\ pc[f] \in {"y_result", "y_failed", "y_cancelled"}
  /\ pc' = [pc EXCEPT ![f] = FinallyPc(f)]
  /\ UNCHANGED <<cur, configVars, agentVars, wait, proxmoxClient, taskVars, cav, xc, stream, dv,
                 sdList, envVars, hist>>

\* Line 566: destroy_vm(task.vmid).
ResumeCleanup(f) ==
  /\ Idle /\ pc[f] = "y_cleanup"
  /\ CallDestroyVm(f, task_vmid[f], TRUE, "finally", f)
  /\ UNCHANGED <<configVars, agentVars, wait, proxmoxClient, taskVars, cav, xc, stream, sdList,
                 envVars>>

\* FinallyAfterDestroy with a teardown error that overrides the outcome: the
\* except clause of line 568 marking the task failed.
FinallyAfterDestroy_Masks(f) ==
  /\ Running(f) /\ pc[f] \in {"d_ret_ok", "d_ret_raise"} /\ dv[f].ret = "finally"
  /\ pc' = [pc EXCEPT ![f] = IF pc[f] = "d_ret_ok" THEN "y_destroyed" ELSE "y_cleanfail"]
  /\ status' = [status EXCEPT ![f] = IF pc[f] = "d_ret_ok" THEN @ ELSE "failed"]
  /\ error' = [error EXCEPT ![f] = IF pc[f] = "d_ret_ok" THEN @ ELSE "teardown"]
  /\ dv' = [dv EXCEPT ![f] = NoFrame]
  /\ cur' = <<>>
  /\ UNCHANGED <<configVars, agentVars, wait, proxmoxClient, tasksOrder, task_vmid, vm_ip,
                 result,
                 progress_log, cav, xc, stream, sdList, envVars, hist>>

\* Lines 567-569: the message after destroy_vm returned or raised.
FinallyAfterDestroy(f) ==
  /\ Running(f) /\ pc[f] \in {"d_ret_ok", "d_ret_raise"} /\ dv[f].ret = "finally"
  /\ pc' = [pc EXCEPT ![f] = IF pc[f] = "d_ret_ok" THEN "y_destroyed" ELSE "y_cleanfail"]
  /\ dv' = [dv EXCEPT ![f] = NoFrame]
  /\ cur' = <<>>
  /\ UNCHANGED <<configVars, agentVars, wait, proxmoxClient, taskVars, cav, xc, stream, sdList,
                 envVars, hist>>

\* The generator ends after the last message.
ResumeEnd(f) ==
  /\ Idle /\ pc[f] \in {"y_destroyed", "y_cleanfail"}
  /\ pc' = [pc EXCEPT ![f] = "done"]
  /\ UNCHANGED <<cur, configVars, agentVars, wait, proxmoxClient, taskVars, cav, xc, stream, dv,
                 sdList, envVars, hist>>

\* ------------------------------------------- the consumer and the event loop
\* The yields inside the try statement of lines 499-559.
TryYields == {"y_prov", "y_vmready", "y_line", "y_timeout", "y_result", "y_failed",
              "y_cancelled"}
OtherYields == {"y_norepo", "y_noproxmox", "y_header", "y_cleanup", "y_ignored",
                "y_destroyed", "y_cleanfail"}

\* The consumer closes the stream (aclose): GeneratorExit is raised at the
\* yield the generator is suspended at.  No except clause catches it.  From a
\* yield inside the try the finally block runs, and with task.vmid set it
\* yields (line 564): aclose raises RuntimeError ("async generator ignored
\* GeneratorExit") and the generator stays suspended there, with no consumer
\* left to resume it; the close at its finalization ends it.  From any other
\* yield the generator ends.
Close(f) ==
  /\ Idle /\ pc[f] \in TryYields \cup OtherYields
  /\ pc' = [pc EXCEPT ![f] = IF pc[f] \in TryYields /\ task_vmid[f] # 0
                             THEN "y_ignored" ELSE "done"]
  /\ stream' = [stream EXCEPT ![f] = NoStream]
  /\ UNCHANGED <<cur, configVars, agentVars, wait, proxmoxClient, taskVars, cav, xc, dv, sdList,
                 envVars, hist>>

\* The awaits inside the try statement, outside destroy_vm.
TryAwaits == {"wt_sleep", "wi_sleep", "x_sleep", "s_sleep"}
DestroyAwaits == {"d_sleep5", "d_sleep3"}

\* The task that consumes the stream is cancelled while the generator
\* awaits: CancelledError is raised at the await.  It is no Exception, so
\* only the handler of line 550 catches it; in the finally block nothing does.
Cancel(f) ==
  /\ Idle /\ pc[f] \in TryAwaits \cup DestroyAwaits
  /\ IF pc[f] \in TryAwaits \/ dv[f].ret = "cav"
     THEN CancelledHandler(f)
     ELSE /\ pc' = [pc EXCEPT ![f] = "done"]
          /\ UNCHANGED <<cur, status, hist>>
  /\ cav' = [cav EXCEPT ![f] = NoCav]
  /\ xc' = [xc EXCEPT ![f] = NoExec]
  /\ stream' = [stream EXCEPT ![f] = NoStream]
  /\ dv' = [dv EXCEPT ![f] = NoFrame]
  /\ gx' = [gx EXCEPT ![f] = NoGuestCmd]
  /\ UNCHANGED <<configVars, agentVars, wait, proxmoxClient, tasksOrder, task_vmid, vm_ip,
                 result, error,
                 progress_log, sdList, vms, guest>>

\* ------------------------------------------------ ProxmoxManager.destroy_vm
\* DestroyStop with the exception of a failed graceful stop raised when force
\* is off, so that the deletion is skipped.
DestroyStop_RaisesWithoutForce(c) ==
  /\ Running(c) /\ pc[c] = "d_stop"
  /\ \/ /\ dv[c].vmid \in vms
        /\ dv' = [dv EXCEPT ![c].stop = "ok"]
        /\ pc' = [pc EXCEPT ![c] = "d_sleep5"]
        /\ cur' = <<>>
     \/ /\ dv' = [dv EXCEPT ![c].stop = "fail"]
        /\ pc' = [pc EXCEPT ![c] = IF dv[c].force THEN "d_force" ELSE "d_ret_raise"]
        /\ UNCHANGED cur
  /\ UNCHANGED <<configVars, agentVars, wait, proxmoxClient, taskVars, cav, xc, stream, sdList,
                 envVars, hist>>

\* Lines 261-265: the graceful stop.  It raises for a VM that does not exist
\* and may raise otherwise.  When it raised and force is off, the deletion
\* follows at once.
DestroyStop(c) ==
  /\ Running(c) /\ pc[c] = "d_stop"
  /\ \/ /\ dv[c].vmid \in vms
        /\ dv' = [dv EXCEPT ![c].stop = "ok"]
        /\ pc' = [pc EXCEPT ![c] = "d_sleep5"]
        /\ cur' = <<>>
     \/ /\ dv' = [dv EXCEPT ![c].stop = "fail"]
        /\ pc' = [pc EXCEPT ![c] = IF dv[c].force THEN "d_force" ELSE "d_delete"]
        /\ UNCHANGED cur
  /\ UNCHANGED <<configVars, agentVars, wait, proxmoxClient, taskVars, cav, xc, stream, sdList,
                 envVars, hist>>

\* Lines 266-270: the forced stop; its exception is dropped.
DestroyForceStop(c) ==
  /\ Running(c) /\ pc[c] = "d_force"
  /\ \/ /\ dv[c].vmid \in vms
        /\ dv' = [dv EXCEPT ![c].forced = "ok"]
        /\ pc' = [pc EXCEPT ![c] = "d_sleep3"]
        /\ cur' = <<>>
     \/ /\ dv' = [dv EXCEPT ![c].forced = "fail"]
        /\ pc' = [pc EXCEPT ![c] = "d_delete"]
        /\ UNCHANGED cur
  /\ UNCHANGED <<configVars, agentVars, wait, proxmoxClient, taskVars, cav, xc, stream, sdList,
                 envVars, hist>>

\* asyncio.sleep(5) or asyncio.sleep(3) of destroy_vm is over.
DestroyWake(c) ==
  /\ Idle /\ pc[c] \in DestroyAwaits
  /\ pc' = [pc EXCEPT ![c] = "d_delete"]
  /\ cur' = <<c>>
  /\ UNCHANGED <<configVars, agentVars, wait, proxmoxClient, taskVars, cav, xc, stream, dv,
                 sdList,
                 envVars, hist>>

\* Lines 273-278: the deletion; its exception is logged and raised.
DestroyDelete(c) ==
  /\ Running(c) /\ pc[c] = "d_delete"
  /\ \/ /\ dv[c].vmid \in vms
        /\ vms' = vms \ {dv[c].vmid}
        /\ guest' = [guest EXCEPT ![dv[c].vmid] = FreshGuest]
        /\ dv' = [dv EXCEPT ![c].del = "ok"]
        /\ pc' = [pc EXCEPT ![c] = "d_ret_ok"]
     \/ /\ dv' = [dv EXCEPT ![c].del = "fail"]
        /\ pc' = [pc EXCEPT ![c] = "d_ret_raise"]
        /\ UNCHANGED <<vms, guest>>
  /\ UNCHANGED <<cur, configVars, agentVars, wait, proxmoxClient, taskVars, cav, xc, stream,
                 sdList,
                 gx, hist>>

\* ------------------------------------------------------- Pipe.on_shutdown
\* Line 346: the loop runs over a copy of the tasks.
ShutdownStart ==
  /\ Idle /\ pc[ShutdownCoro] = "init"
  /\ sdList' = tasksOrder
  /\ pc' = [pc EXCEPT ![ShutdownCoro] = "sd_loop"]
  /\ cur' = <<ShutdownCoro>>
  /\ UNCHANGED <<configVars, agentVars, wait, proxmoxClient, taskVars, cav, xc, stream, dv,
                 envVars, hist>>

\* Lines 346-349, one turn: destroy_vm for a task with a vmid whose status is
\* RUNNING or PROVISIONING; any other task is passed over.
ShutdownLoop ==
  /\ Running(ShutdownCoro) /\ pc[ShutdownCoro] = "sd_loop"
  /\ IF sdList = <<>>
     THEN /\ pc' = [pc EXCEPT ![ShutdownCoro] = "done"]
          /\ cur' = <<>>
          /\ UNCHANGED <<sdList, dv, hist>>
     ELSE LET t == Head(sdList)
          IN IF task_vmid[t] # 0 /\ status[t] \in {"running", "provisioning"}
             THEN /\ CallDestroyVm(ShutdownCoro, task_vmid[t], TRUE, "shutdown", t)
                  /\ UNCHANGED sdList
             ELSE /\ sdList' = Tail(sdList)
                  /\ UNCHANGED <<pc, cur, dv, hist>>
  /\ UNCHANGED <<configVars, agentVars, wait, proxmoxClient, taskVars, cav, xc, stream,
                 envVars>>

\* Lines 350-352: destroy_vm returned or raised; the next task.
ShutdownAfterDestroy ==
  /\ Running(ShutdownCoro) /\ pc[ShutdownCoro] \in {"d_ret_ok", "d_ret_raise"}
  /\ dv[ShutdownCoro].ret = "shutdown"
  /\ sdList' = Tail(sdList)
  /\ dv' = [dv EXCEPT ![ShutdownCoro] = NoFrame]
  /\ pc' = [pc EXCEPT ![ShutdownCoro] = "sd_loop"]
  /\ UNCHANGED <<cur, configVars, agentVars, wait, proxmoxClient, taskVars, cav, xc, stream,
                 envVars, hist>>

\* ------------------------------------------------------------ environment
\* The guest completes the cat command of a poll or of the result retrieval:
\* its output is the file as it is at that moment ('{}' without result file).
GuestCompletes(f) ==
  /\ Idle
  /\ gx[f].cmd \in {"poll", "result"} /\ ~gx[f].done /\ gx[f].vmid \in vms
  /\ gx' = [gx EXCEPT ![f].done = TRUE,
                      ![f].out = IF gx[f].cmd = "poll" THEN guest[gx[f].vmid].feed ELSE <<>>,
                      ![f].json = IF gx[f].cmd = "poll" THEN "none"
                                  ELSE IF guest[gx[f].vmid].result_json THEN "success"
                                  ELSE "empty"]
  /\ UNCHANGED <<cur, pc, configVars, agentVars, wait, proxmoxClient, taskVars, cav, xc,
                 stream, dv,
                 sdList, vms, guest, hist>>

\* The guest completes the echo command of the configuration write (lines
\* 590-593): the file is there in full.
GuestWritesConfig(v) ==
  /\ Idle /\ v \in vms /\ guest[v].config = "writing"
  /\ guest' = [guest EXCEPT ![v].config = "written"]
  /\ UNCHANGED <<cur, pc, configVars, agentVars, wait, proxmoxClient, taskVars, cav, xc,
                 stream, dv, sdList, vms, gx, hist>>

\* The lines the agent process can append to a feed: its first line is the
\* "Loading configuration..." line of main (src/main.py line 1007); the only
\* failure marker with an empty text is that of line 1023, after which the
\* process exits.
NextLines(feed) ==
  IF feed = <<>> THEN {"info"}
  ELSE IF feed[Len(feed)] = "failed_empty" THEN {}
  ELSE LineKinds

\* ProgressLogger.log (src/main.py): the agent process appends one line, up
\* to max lines.
AgentAppend(v, max) ==
  /\ Idle /\ v \in vms /\ guest[v].agent /\ Len(guest[v].feed) < max
  /\ \E line \in NextLines(guest[v].feed) :
       guest' = [guest EXCEPT ![v].feed = Append(@, line)]
  /\ UNCHANGED <<cur, pc, configVars, agentVars, wait, proxmoxClient, taskVars, cav, xc,
                 stream, dv,
                 sdList, vms, gx, hist>>

AgentLog(v) == AgentAppend(v, MaxFeed)

\* TaskCompleteTool.execute (src/main.py): the agent writes result.json.
AgentWritesResult(v) ==
  /\ Idle /\ v \in vms /\ guest[v].agent /\ ~guest[v].result_json
  /\ guest' = [guest EXCEPT ![v].result_json = TRUE]
  /\ UNCHANGED <<cur, pc, configVars, agentVars, wait, proxmoxClient, taskVars, cav, xc,
                 stream, dv,
                 sdList, vms, gx, hist>>

\* ---------------------------------------------------------- specification
FlowStep(f) ==
  \/ Start(f) \/ ResumeMessage(f) \/ ResumeHeader(f) \/ ResumeProv(f)
  \/ CavGetClient(f) \/ CavGetNextVmid(f) \/ CavClone(f)
  \/ WaitForTask(f) \/ WaitForTaskWake(f) \/ CavConfigure(f) \/ CavStartVm(f)
  \/ WaitForIp(f) \/ WaitForIpWake(f) \/ CavExcept(f) \/ CavReraise(f)
  \/ ResumeVmReady(f) \/ ExecPost(f) \/ ExecWake(f) \/ ExecStatus(f)
  \/ InjectReturn(f) \/ LaunchReturn(f) \/ InjectRaise(f)
  \/ StreamLoop(f) \/ ResumeTimeout(f) \/ PollReturn(f) \/ Deliver(f)
  \/ ResumeLine(f) \/ StreamCheck(f) \/ PollRaise(f) \/ StreamWake(f)
  \/ GetTaskResultReturn(f)
  \/ ResumeReported(f) \/ ResumeCleanup(f) \/ FinallyAfterDestroy(f) \/ ResumeEnd(f)
  \/ Close(f) \/ Cancel(f)
  \/ GuestCompletes(f)

DestroyStep(c) ==
  DestroyStop(c) \/ DestroyForceStop(c) \/ DestroyWake(c) \/ DestroyDelete(c)

Next ==
  \/ \E f \in Flows : FlowStep(f)
  \/ \E c \in Coros : DestroyStep(c)
  \/ ShutdownStart \/ ShutdownLoop \/ ShutdownAfterDestroy
  \/ \E v \in VmIds : AgentLog(v) \/ AgentWritesResult(v) \/ GuestWritesConfig(v)

Spec == Init /\ [][Next]_vars

\* The steps the consumer of the stream takes: the first __anext__, the
\* resumption of the generator at a yield, aclose, and the cancellation of
\* the consuming task.
ConsumerStep(f) ==
  \/ Start(f) \/ ResumeMessage(f) \/ ResumeHeader(f) \/ ResumeProv(f)
  \/ ResumeVmReady(f) \/ ResumeTimeout(f) \/ ResumeLine(f) \/ ResumeReported(f)
  \/ ResumeCleanup(f) \/ ResumeEnd(f) \/ Close(f) \/ Cancel(f)

\* The steps that need no consumer: the code the event loop runs between two
\* suspension points, sleeps that end, the backend, the guest and the agent.
OwnStep ==
  \/ \E f \in Flows :
       \/ CavGetClient(f) \/ CavGetNextVmid(f) \/ CavClone(f)
       \/ WaitForTask(f) \/ WaitForTaskWake(f) \/ CavConfigure(f) \/ CavStartVm(f)
       \/ WaitForIp(f) \/ WaitForIpWake(f) \/ CavExcept(f) \/ CavReraise(f)
       \/ ExecPost(f) \/ ExecWake(f) \/ ExecStatus(f)
       \/ InjectReturn(f) \/ LaunchReturn(f) \/ InjectRaise(f)
       \/ StreamLoop(f) \/ PollReturn(f) \/ Deliver(f)
       \/ StreamCheck(f) \/ PollRaise(f) \/ StreamWake(f)
       \/ GetTaskResultReturn(f) \/ FinallyAfterDestroy(f)
       \/ GuestCompletes(f)
  \/ \E c \in Coros : DestroyStep(c)
  \/ ShutdownStart \/ ShutdownLoop \/ ShutdownAfterDestroy
  \/ \E v \in VmIds : AgentLog(v) \/ AgentWritesResult(v) \/ GuestWritesConfig(v)

\* The orchestrator with every step that needs no consumer taken in the end;
\* the consumer may stop at any moment.
SpecOwnFair == Spec /\ WF_vars(OwnStep)

\* ------------------------------------------------------ concurrent tasks
\* Two requests served by the one orchestrator, beside on_shutdown:
\* provisioning, injection and launch, and the teardown.  A flow that has
\* launched its agent stays in the streaming loop (its polls are left out);
\* the consumers read on and cancel nothing.
InitPool ==
  /\ AgentOff
  /\ cur = <<>>
  /\ pc = [c \in PoolFlows \cup {ShutdownCoro} |-> "init"]
  /\ proxmoxConfigured = TRUE
  /\ hasDefaultModel = TRUE
  /\ proxmoxClient = FALSE
  /\ tasksOrder = <<>>
  /\ status = [f \in PoolFlows |-> "none"]
  /\ task_vmid = [f \in PoolFlows |-> 0]
  /\ vm_ip = [f \in PoolFlows |-> "none"]
  /\ result = [f \in PoolFlows |-> "none"]
  /\ error = [f \in PoolFlows |-> "none"]
  /\ progress_log = [f \in PoolFlows |-> <<>>]
  /\ cav = [f \in PoolFlows |-> NoCav]
  /\ xc = [f \in PoolFlows |-> NoExec]
  /\ stream = [f \in PoolFlows |-> NoStream]
  /\ dv = [c \in PoolFlows \cup {ShutdownCoro} |-> NoFrame]
  /\ sdList = <<>>
  /\ vms = {}
  /\ guest = [v \in PoolVmIds |-> FreshGuest]
  /\ gx = [f \in PoolFlows |-> NoGuestCmd]
  /\ hist = [f \in PoolFlows |-> NoHist]

NextPool ==
  \/ \E f \in PoolFlows :
       \/ Start(f) \/ ResumeMessage(f) \/ ResumeHeader(f) \/ ResumeProv(f)
       \/ CavGetClient(f) \/ CavGetNextVmid(f) \/ CavClone(f)
       \/ WaitForTask(f) \/ WaitForTaskWake(f) \/ CavConfigure(f) \/ CavStartVm(f)
       \/ WaitForIp(f) \/ WaitForIpWake(f) \/ CavExcept(f) \/ CavReraise(f)
       \/ ResumeVmReady(f) \/ ExecPost(f) \/ ExecWake(f) \/ ExecStatus(f)
       \/ InjectReturn(f) \/ LaunchReturn(f) \/ InjectRaise(f)
       \/ ResumeReported(f) \/ ResumeCleanup(f) \/ FinallyAfterDestroy(f) \/ ResumeEnd(f)
  \/ \E c \in PoolFlows \cup {ShutdownCoro} : DestroyStep(c)
  \/ ShutdownStart \/ ShutdownLoop \/ ShutdownAfterDestroy

SpecPool == InitPool /\ [][NextPool]_vars

\* ------------------------------------------ destroy_vm with any arguments
\* A caller of destroy_vm(vmid, force) with any vmid and either value of
\* force (the orchestrator's own calls leave force at its default, True).
DirectCall(c) ==
  /\ Idle /\ pc[c] = "direct" /\ hist[c].destroyCalls < MaxDirectCalls
  /\ \E v \in VmIds, force \in BOOLEAN : CallDestroyVm(c, v, force, "direct", c)
  /\ UNCHANGED <<configVars, agentVars, wait, proxmoxClient, taskVars, cav, xc, stream, sdList,
                 envVars>>

DirectReturn(c) ==
  /\ Running(c) /\ pc[c] \in {"d_ret_ok", "d_ret_raise"} /\ dv[c].ret = "direct"
  /\ pc' = [pc EXCEPT ![c] = "direct"]
  /\ dv' = [dv EXCEPT ![c] = NoFrame]
  /\ cur' = <<>>
  /\ UNCHANGED <<configVars, agentVars, wait, proxmoxClient, taskVars, cav, xc, stream, sdList,
                 envVars, hist>>

\* Another user of the backend creates or removes a VM.
BackendChanges(v) ==
  /\ Idle
  /\ vms' = IF v \in vms THEN vms \ {v} ELSE vms \cup {v}
  /\ UNCHANGED <<cur, pc, configVars, agentVars, wait, proxmoxClient, taskVars, cav, xc,
                 stream, dv,
                 sdList, guest, gx, hist>>

InitDestroyVm ==
  /\ AgentOff
  /\ cur = <<>>
  /\ pc = [c \in Coros |-> IF c \in Flows THEN "direct" ELSE "done"]
  /\ proxmoxConfigured = TRUE
  /\ hasDefaultModel = TRUE
  /\ proxmoxClient = TRUE
  /\ tasksOrder = <<>>
  /\ status = [f \in Flows |-> "none"]
  /\ task_vmid = [f \in Flows |-> 0]
  /\ vm_ip = [f \in Flows |-> "none"]
  /\ result = [f \in Flows |-> "none"]
  /\ error = [f \in Flows |-> "none"]
  /\ progress_log = [f \in Flows |-> <<>>]
  /\ cav = [f \in Flows |-> NoCav]
  /\ xc = [f \in Flows |-> NoExec]
  /\ stream = [f \in Flows |-> NoStream]
  /\ dv = [c \in Coros |-> NoFrame]
  /\ sdList = <<>>
  /\ vms \in SUBSET VmIds
  /\ guest = [v \in VmIds |-> FreshGuest]
  /\ gx = [f \in Flows |-> NoGuestCmd]
  /\ hist = [f \in Flows |-> NoHist]

NextDestroyVm ==
  \/ \E c \in Flows : DirectCall(c) \/ DestroyStep(c) \/ DirectReturn(c) \/ Cancel(c)
  \/ \E v \in VmIds : BackendChanges(v)

SpecDestroyVm == InitDestroyVm /\ [][NextDestroyVm]_vars

\* ------------------------------------------------ the progress relay alone
\* The flow as LaunchReturn leaves it: the task is RUNNING on its VM, the
\* agent has been launched, _stream_agent_progress is at the top of its loop.
InitRelay ==
  /\ AgentOff
  /\ cur = <<1>>
  /\ pc = [c \in Coros |-> IF c \in Flows THEN "s_loop" ELSE "init"]
  /\ proxmoxConfigured = TRUE
  /\ hasDefaultModel = TRUE
  /\ proxmoxClient = TRUE
  /\ tasksOrder = <<1>>
  /\ status = [f \in Flows |-> "running"]
  /\ task_vmid = [f \in Flows |-> VmPoolStart]
  /\ vm_ip = [f \in Flows |-> "ip"]
  /\ result = [f \in Flows |-> "none"]
  /\ error = [f \in Flows |-> "none"]
  /\ progress_log = [f \in Flows |-> <<>>]
  /\ cav = [f \in Flows |-> NoCav]
  /\ xc = [f \in Flows |-> NoExec]
  /\ stream = [f \in Flows |-> NoStream]
  /\ dv = [c \in Coros |-> NoFrame]
  /\ sdList = <<>>
  /\ vms = {VmPoolStart}
  /\ guest = [v \in VmIds |-> [FreshGuest EXCEPT !.agent = TRUE, !.config = "written", !.name = 1]]
  /\ gx = [f \in Flows |-> NoGuestCmd]
  /\ hist = [f \in Flows |-> [NoHist EXCEPT !.cloned = TRUE]]

RelayAgentLog(v) == AgentAppend(v, MaxRelayFeed)

\* The stream loop and what follows its end, with the guest and the agent;
\* the consumer reads on, nothing is cancelled or shut down.
NextRelay ==
  \/ \E f \in Flows :
       \/ StreamLoop(f) \/ ExecPost(f) \/ ExecWake(f) \/ ExecStatus(f)
       \/ PollReturn(f) \/ Deliver(f) \/ ResumeLine(f) \/ StreamCheck(f)
       \/ PollRaise(f) \/ StreamWake(f) \/ ResumeTimeout(f)
       \/ GetTaskResultReturn(f) \/ GuestCompletes(f)
  \/ \E v \in VmIds : RelayAgentLog(v) \/ AgentWritesResult(v)

SpecRelay == InitRelay /\ [][NextRelay]_vars

\* ------------------------------------------------------ the agent process
\* src/main.py: main and CodingAgent.run.  The model service and the tools
\* are the environment: a completion call returns a response or raises, a
\* tool returns or raises.  Consecutive lines that hold no marker are logged
\* as one "info" line.
ToolNames == {"task_complete", "other"}
\* The tool_calls lists of at most MaxToolCalls calls.
ToolCallLists == UNION {[1..n -> ToolNames] : n \in 1..MaxToolCalls}
\* tool_call.id: the calls of the responses are told apart by their ids.
CallId(it, k) == <<it, k>>

Turn(role, id, content, calls) ==
  [role |-> role, tool_call_id |-> id, content |-> content, tool_calls |-> calls]
SystemTurn == Turn("system", <<>>, "SYSTEM_PROMPT", <<>>)
TaskTurn == Turn("user", <<>>, "task", <<>>)
\* Lines 957-960: "An error occurred: ... Please try a different approach."
CorrectiveTurn == Turn("user", <<>>, "An error occurred", <<>>)
TextTurn == Turn("assistant", <<>>, "text", <<>>)
\* message.model_dump() of a response with tool calls.
AssistantTurn(it, calls) ==
  Turn("assistant", <<>>, "none", [k \in 1..Len(calls) |-> CallId(it, k)])
\* Lines 929-933.
ToolTurn(id, content) == Turn("tool", id, content, <<>>)

LogLine(kind) == agent_feed' = Append(agent_feed, kind)
LogLines(kinds) == agent_feed' = agent_feed \o kinds

\* The orchestrator's variables, which the agent process never touches.
orchestratorVars ==
  <<cur, pc, configVars, proxmoxClient, taskVars, cav, xc, stream, dv, sdList,
    envVars, hist, wait>>

\* main, lines 1004-1016 and 1022-1025: the configuration is loaded and the
\* agent built, or an exception is logged with the failure marker (its text
\* may be empty) and the process exits.
AgentMain ==
  /\ apc = "main"
  /\ \/ /\ LogLine("info")
        /\ apc' = "run"
     \/ /\ \E kind \in {"failed_error", "failed_empty"} : LogLines(<<"info", kind>>)
        /\ apc' = "exited"
  /\ UNCHANGED <<orchestratorVars, toolVars, iteration, messages, tool_calls, tc_idx,
                 task_completed, agent_result, ahist>>

\* run, lines 881-905: the clone fails (failure marker, return) or
\* succeeds; then the conversation starts with the system and the task turn.
AgentClone ==
  /\ apc = "run"
  /\ \/ /\ LogLines(<<"info", "failed_clone">>)
        /\ apc' = "after_run"
        /\ UNCHANGED messages
     \/ /\ LogLine("info")
        /\ messages' = <<SystemTurn, TaskTurn>>
        /\ apc' = "loop"
  /\ UNCHANGED <<orchestratorVars, toolVars, iteration, tool_calls, tc_idx, task_completed,
                 agent_result, ahist>>

\* AgentIterationStart for a range of max_iterations + 1.
AgentIterationStart_OneMore ==
  /\ apc = "loop" /\ iteration <= MaxIterations
  /\ LogLine("info")
  /\ apc' = "call"
  /\ UNCHANGED <<orchestratorVars, toolVars, iteration, messages, tool_calls, tc_idx,
                 task_completed, agent_result, ahist>>

\* Lines 908-909: the next turn of `for iteration in range(max_iterations)`.
AgentIterationStart ==
  /\ apc = "loop" /\ iteration < MaxIterations
  /\ LogLine("info")
  /\ apc' = "call"
  /\ UNCHANGED <<orchestratorVars, toolVars, iteration, messages, tool_calls, tc_idx,
                 task_completed, agent_result, ahist>>

\* AgentExhausted that logs no failure of its own.
AgentExhausted_Silent ==
  /\ apc = "loop" /\ iteration >= MaxIterations
  /\ LogLine("info")
  /\ apc' = "after_run"
  /\ UNCHANGED <<orchestratorVars, toolVars, iteration, messages, tool_calls, tc_idx,
                 task_completed, agent_result, ahist>>

\* Lines 962-963: the range is used up.
AgentExhausted ==
  /\ apc = "loop" /\ iteration >= MaxIterations
  /\ LogLine("failed_exhausted")
  /\ apc' = "after_run"
  /\ UNCHANGED <<orchestratorVars, toolVars, iteration, messages, tool_calls, tc_idx,
                 task_completed, agent_result, ahist>>

\* AgentCompletionRaises whose handler appends nothing to the conversation.
AgentCompletionRaises_NoTurn ==
  /\ apc = "call"
  /\ ahist' = [ahist EXCEPT !.modelCalls = @ + 1, !.exceptions = @ + 1,
                            !.handled = @ + 1]
  /\ LogLine("info")
  /\ iteration' = iteration + 1
  /\ apc' = "loop"
  /\ UNCHANGED <<orchestratorVars, toolVars, messages, tool_calls, tc_idx, task_completed,
                 agent_result>>

\* Lines 913 and 952-960: _get_completion (or the access to choices[0])
\* raises; the error is logged and the corrective turn appended.
AgentCompletionRaises ==
  /\ apc = "call"
  /\ ahist' = [ahist EXCEPT !.modelCalls = @ + 1, !.exceptions = @ + 1,
                            !.handled = @ + 1]
  /\ LogLine("info")
  /\ messages' = Append(messages, CorrectiveTurn)
  /\ iteration' = iteration + 1
  /\ apc' = "loop"
  /\ UNCHANGED <<orchestratorVars, toolVars, tool_calls, tc_idx, task_completed, agent_result>>

\* Lines 916-918: a response that is false; `continue`.
AgentEmptyResponse ==
  /\ apc = "call"
  /\ ahist' = [ahist EXCEPT !.modelCalls = @ + 1]
  /\ LogLine("info")
  /\ iteration' = iteration + 1
  /\ apc' = "loop"
  /\ UNCHANGED <<orchestratorVars, toolVars, messages, tool_calls, tc_idx, task_completed,
                 agent_result>>

\* Lines 939-950: a response without tool calls; its text, when it has one,
\* is logged and appended as an assistant turn.
AgentTextResponse ==
  /\ apc = "call"
  /\ ahist' = [ahist EXCEPT !.modelCalls = @ + 1]
  /\ \/ /\ LogLine("info")
        /\ messages' = Append(messages, TextTurn)
     \/ UNCHANGED <<agent_feed, messages>>
  /\ iteration' = iteration + 1
  /\ apc' = "loop"
  /\ UNCHANGED <<orchestratorVars, toolVars, tool_calls, tc_idx, task_completed, agent_result>>

\* Lines 923-927: a response with tool calls; the assistant turn is appended
\* and the for loop over the calls starts.
AgentToolCallsResponse ==
  /\ apc = "call"
  /\ ahist' = [ahist EXCEPT !.modelCalls = @ + 1]
  /\ \E calls \in ToolCallLists :
       /\ tool_calls' = calls
       /\ messages' = Append(messages, AssistantTurn(iteration, calls))
  /\ tc_idx' = 1
  /\ apc' = "tools"
  /\ UNCHANGED <<orchestratorVars, toolVars, iteration, task_completed, agent_feed,
                 agent_result>>

\* TaskCompleteTool.execute (lines 724-739) with the outcome out: the success
\* line, result.json, the success marker; when it raises, after the success
\* line at the latest.
CompleteToolRuns(out) ==
  IF out = "ok" THEN LogLines(<<"info", "complete">>) /\ agent_result' = TRUE
  ELSE (LogLine("info") \/ UNCHANGED agent_feed) /\ UNCHANGED agent_result

\* Any other tool with the outcome out: it logs its action.
OtherToolRuns(out) == LogLine("info") /\ UNCHANGED agent_result

\* The outcomes of _execute_tool (lines 975-995): the tool is executed and
\* returns ("ok") or raises ("raised", caught at line 994); the call is
\* rejected before any tool is executed (arguments that are no JSON, unknown
\* tool); the parsing of the arguments raises something else than
\* JSONDecodeError ("escaped": the exception leaves _execute_tool).
ToolOutcomes == {"ok", "raised", "rejected", "escaped"}

\* What one call of _execute_tool does, beside its return value.
ExecuteTool(name, id, out) ==
  /\ IF out \in {"rejected", "escaped"} THEN UNCHANGED agent_result
     ELSE IF name = "task_complete" THEN CompleteToolRuns(out)
     ELSE OtherToolRuns(out)
  /\ out = "rejected" => UNCHANGED agent_feed
  /\ out = "escaped" => LogLine("info")
  /\ ahist' = [ahist EXCEPT
                 !.executed = IF out \in {"ok", "raised"} THEN Append(@, id) ELSE @,
                 !.exceptions = IF out \in {"raised", "escaped"} THEN @ + 1 ELSE @,
                 !.handled = IF out = "escaped" THEN @ + 1 ELSE @]

\* Lines 952-960 for an exception that left _execute_tool: the error line
\* (logged by ExecuteTool), the corrective turn, the next iteration.
ToolEscapes ==
  /\ messages' = Append(messages, CorrectiveTurn)
  /\ tc_idx' = 0
  /\ tool_calls' = <<>>
  /\ iteration' = iteration + 1
  /\ apc' = "loop"
  /\ UNCHANGED task_completed

\* Lines 935-950 after the tool turn of call tc_idx: a call named
\* task_complete, whatever its outcome, sets task_completed and returns;
\* after the last call the next iteration follows (line 949 is false).
AfterToolTurn(name) ==
  IF name = "task_complete"
  THEN /\ task_completed' = TRUE
       /\ apc' = "after_run"
       /\ tc_idx' = 0
       /\ tool_calls' = <<>>
       /\ UNCHANGED iteration
  ELSE IF tc_idx < Len(tool_calls)
  THEN /\ tc_idx' = tc_idx + 1
       /\ UNCHANGED <<iteration, apc, tool_calls, task_completed>>
  ELSE /\ tc_idx' = 0
       /\ tool_calls' = <<>>
       /\ iteration' = iteration + 1
       /\ apc' = "loop"
       /\ UNCHANGED task_completed

\* AgentExecuteTool that goes on with the calls that follow task_complete.
AgentExecuteTool_KeepsGoing ==
  /\ apc = "tools"
  /\ LET name == tool_calls[tc_idx]
         id == CallId(iteration, tc_idx)
     IN \E out \in ToolOutcomes :
          /\ ExecuteTool(name, id, out)
          /\ IF out = "escaped" THEN ToolEscapes
             ELSE /\ messages' = Append(messages, ToolTurn(id, out))
                  /\ task_completed' = (task_completed \/ name = "task_complete")
                  /\ IF tc_idx < Len(tool_calls)
                     THEN /\ tc_idx' = tc_idx + 1
                          /\ UNCHANGED <<iteration, apc, tool_calls>>
                     ELSE /\ tc_idx' = 0
                          /\ tool_calls' = <<>>
                          /\ IF task_completed'
                             THEN apc' = "after_run" /\ UNCHANGED iteration
                             ELSE apc' = "loop" /\ iteration' = iteration + 1
  /\ UNCHANGED <<orchestratorVars, toolVars>>

\* AgentExecuteTool that appends no tool turn for a call that failed.
AgentExecuteTool_DropsErrors ==
  /\ apc = "tools"
  /\ LET name == tool_calls[tc_idx]
         id == CallId(iteration, tc_idx)
     IN \E out \in ToolOutcomes :
          /\ ExecuteTool(name, id, out)
          /\ IF out = "escaped" THEN ToolEscapes
             ELSE /\ messages' = IF out = "ok" THEN Append(messages, ToolTurn(id, out))
                                 ELSE messages
                  /\ AfterToolTurn(name)
  /\ UNCHANGED <<orchestratorVars, toolVars>>

\* Lines 927-938, one turn of the for loop over message.tool_calls:
\* _execute_tool, then the tool turn with the call's id and the returned
\* text (here: the outcome), then AfterToolTurn.
AgentExecuteTool ==
  /\ apc = "tools"
  /\ LET name == tool_calls[tc_idx]
         id == CallId(iteration, tc_idx)
     IN \E out \in ToolOutcomes :
          /\ ExecuteTool(name, id, out)
          /\ IF out = "escaped" THEN ToolEscapes
             ELSE /\ messages' = Append(messages, ToolTurn(id, out))
                  /\ AfterToolTurn(name)
  /\ UNCHANGED <<orchestratorVars, toolVars>>

\* AgentAfterRun that writes the failure marker after every run.
AgentAfterRun_AlwaysFails ==
  /\ apc = "after_run"
  /\ LogLine("failed_incomplete")
  /\ apc' = "exited"
  /\ UNCHANGED <<orchestratorVars, toolVars, iteration, messages, tool_calls, tc_idx,
                 task_completed, agent_result, ahist>>

\* main, lines 1019-1020: run has returned.
AgentAfterRun ==
  /\ apc = "after_run"
  /\ IF task_completed THEN UNCHANGED agent_feed ELSE LogLine("failed_incomplete")
  /\ apc' = "exited"
  /\ UNCHANGED <<orchestratorVars, toolVars, iteration, messages, tool_calls, tc_idx,
                 task_completed, agent_result, ahist>>

\* The agent process as the launch command starts it (main is entered), on
\* the VM of a RUNNING task; the orchestrator is left out.
InitAgent ==
  /\ apc = "main"
  /\ iteration = 0
  /\ messages = <<>>
  /\ tool_calls = <<>>
  /\ tc_idx = 0
  /\ task_completed = FALSE
  /\ agent_feed = <<>>
  /\ agent_result = FALSE
  /\ ahist = NoAgentHist
  /\ ToolOff
  /\ WaitOff
  /\ cur = <<>>
  /\ pc = [c \in Coros |-> "init"]
  /\ proxmoxConfigured = TRUE
  /\ hasDefaultModel = TRUE
  /\ proxmoxClient = TRUE
  /\ tasksOrder = <<1>>
  /\ status = [f \in Flows |-> "running"]
  /\ task_vmid = [f \in Flows |-> VmPoolStart]
  /\ vm_ip = [f \in Flows |-> "ip"]
  /\ result = [f \in Flows |-> "none"]
  /\ error = [f \in Flows |-> "none"]
  /\ progress_log = [f \in Flows |-> <<>>]
  /\ cav = [f \in Flows |-> NoCav]
  /\ xc = [f \in Flows |-> NoExec]
  /\ stream = [f \in Flows |-> NoStream]
  /\ dv = [c \in Coros |-> NoFrame]
  /\ sdList = <<>>
  /\ vms = {VmPoolStart}
  /\ guest = [v \in VmIds |-> [FreshGuest EXCEPT !.agent = TRUE, !.config = "written", !.name = 1]]
  /\ gx = [f \in Flows |-> NoGuestCmd]
  /\ hist = [f \in Flows |-> [NoHist EXCEPT !.cloned = TRUE]]

NextAgent ==
  \/ AgentMain
  \/ AgentClone
  \/ AgentIterationStart
  \/ AgentExhausted
  \/ AgentCompletionRaises
  \/ AgentEmptyResponse
  \/ AgentTextResponse
  \/ AgentToolCallsResponse
  \/ AgentExecuteTool
  \/ AgentAfterRun

SpecAgent == InitAgent /\ [][NextAgent]_vars
\* The agent is a sequential process that the operating system keeps
\* running: a step that can be taken is taken.
SpecAgentFair == SpecAgent /\ WF_vars(NextAgent)

\* ----------------------------------------------------------- the tools
\* src/main.py: one call of CodingAgent._execute_tool, for the tools that
\* take a path and for execute_command.  A file name is a sequence of
\* characters, a path a sequence of names; the file system (what exists, how
\* large it is, what a command prints) is the environment.  Symbolic links
\* are left out: realpath is the lexical normalisation.

\* config.workspace_dir: /h/w for /home/agent/workspace.
WorkspaceDir == << <<"h">>, <<"w">> >>
\* The names of a path argument: "..", the names of the workspace path, a
\* name that starts with the name of the workspace, another name.
DotDot == <<".", ".">>
\* The markers the orchestrator looks for in the feed; each is one character
\* of a name and one token of a command here.
MarkerComplete == "[TASK_COMPLETE]"
MarkerFailed == "[TASK_FAILED]"
Names == {<<"h">>, <<"w">>, <<"w", "2">>, <<"e">>, <<MarkerFailed>>}
Components == Names \cup {DotDot}
PathArgs ==
  [abs : BOOLEAN, comps : UNION {[1..n -> Components] : n \in 0..MaxPathLen}]
NoPath == [abs |-> FALSE, comps |-> <<>>]

\* os.path.join(workspace, path): an absolute path replaces the workspace.
Join(workspace, path) == IF path.abs THEN path.comps ELSE workspace \o path.comps
\* os.path.realpath: ".." drops the name before it and stays at the root.
RECURSIVE Normalize(_, _)
Normalize(done, rest) ==
  IF rest = <<>> THEN done
  ELSE IF Head(rest) = DotDot
       THEN Normalize(IF done = <<>> THEN <<>> ELSE SubSeq(done, 1, Len(done) - 1),
                      Tail(rest))
       ELSE Normalize(Append(done, Head(rest)), Tail(rest))
RealPath(comps) == Normalize(<<>>, comps)
\* The path as the string realpath returns: "/" before every name, "/" alone
\* for the root.
RECURSIVE Slashed(_)
Slashed(comps) ==
  IF comps = <<>> THEN <<>> ELSE <<"/">> \o Head(comps) \o Slashed(Tail(comps))
PathString(comps) == IF comps = <<>> THEN <<"/">> ELSE Slashed(comps)
\* str.startswith
StartsWith(str, prefix) ==
  Len(str) >= Len(prefix) /\ SubSeq(str, 1, Len(prefix)) = prefix
\* ReadFileTool._resolve_path and its copies in the other tools (lines
\* 184-190, 223-227, 275-279, 351-355): full_path.startswith(workspace).
FullPath(path) == RealPath(Join(RealPath(WorkspaceDir), path))
PathAllowed(path) ==
  StartsWith(PathString(FullPath(path)), PathString(RealPath(WorkspaceDir)))

\* shlex.split(command): the command as its tokens.
Tokens ==
  {"ls", "curl", "wget", "evil", "/bin/evil", "/usr/bin/ls", "rm", "-rf", "/", ">",
   "/dev/null", "mkfs.ext4", "dd", "if=x", "|", "sh", "bash", MarkerComplete,
   MarkerFailed}
Commands == UNION {[1..n -> Tokens] : n \in 0..MaxCmdTokens}
\* ALLOWED_COMMANDS (lines 419-432), those of them that are tokens here.
ALLOWED_COMMANDS == {"ls", "curl", "wget", "rm"}
\* parts[0].split("/")[-1]
BaseName(token) ==
  CASE token = "/bin/evil" -> "evil"
    [] token = "/usr/bin/ls" -> "ls"
    [] token = "/dev/null" -> "null"
    [] token = "/" -> ""
    [] OTHER -> token
\* BLOCKED_PATTERNS (lines 434-441) searched in the command, on its tokens:
\* rm\s+-rf\s+/ , >\s*/dev/ , mkfs\. , dd\s+if= , curl.*\|\s*(ba)?sh ,
\* wget.*\|\s*(ba)?sh .
PipedTo(command, tool) ==
  \E i, j \in 1..Len(command) :
    /\ i < j /\ j < Len(command)
    /\ command[i] = tool /\ command[j] = "|" /\ command[j + 1] \in {"sh", "bash"}
MatchesBlocked(command) ==
  \/ \E i \in 1..(Len(command) - 2) :
       /\ command[i] = "rm" /\ command[i + 1] = "-rf"
       /\ command[i + 2] \in {"/", "/dev/null", "/bin/evil", "/usr/bin/ls"}
  \/ \E i \in 1..(Len(command) - 1) : command[i] = ">" /\ command[i + 1] = "/dev/null"
  \/ \E i \in 1..Len(command) : command[i] = "mkfs.ext4"
  \/ \E i \in 1..(Len(command) - 1) : command[i] = "dd" /\ command[i + 1] = "if=x"
  \/ PipedTo(command, "curl")
  \/ PipedTo(command, "wget")
\* _validate_command that looks at the allowlist only.
ValidateCommand_AllowlistOnly(command) ==
  IF command = <<>> THEN "empty"
  ELSE IF BaseName(command[1]) \notin ALLOWED_COMMANDS THEN "not_allowed"
  ELSE "OK"
\* ExecuteCommandTool._validate_command (lines 483-503): the patterns first,
\* then the base command.
ValidateCommand(command) ==
  IF MatchesBlocked(command) THEN "blocked"
  ELSE IF command = <<>> THEN "empty"
  ELSE IF BaseName(command[1]) \notin ALLOWED_COMMANDS THEN "not_allowed"
  ELSE "OK"

\* The tools of the calls looked at, and a name that is no tool.
PathTools == {"read_file", "write_file", "list_files", "search_files"}
\* The most characters of a text: one more than a truncated result has.
MaxTextLen == OutputCap + MarkerLen + 1
\* The calls: the arguments are JSON or not; a path tool has a path, and
\* execute_command a command.
ToolCalls ==
  [name : PathTools, json : {TRUE}, path : PathArgs, command : {<<>>}]
  \cup [name : {"execute_command"}, json : {TRUE}, path : {NoPath}, command : Commands]
  \cup [name : PathTools \cup {"execute_command", "no_tool"}, json : {FALSE},
        path : {NoPath}, command : {<<>>}]
  \cup [name : {"no_tool"}, json : {TRUE}, path : {NoPath}, command : {<<>>}]

\* A result: what kind of text it is, its length, whether it ends with the
\* truncation marker.
Result(kind, len) == [kind |-> kind, len |-> len, marker |-> FALSE]
orchestratorAgentVars ==
  <<orchestratorVars, apc, iteration, messages, tool_calls, tc_idx, task_completed,
    agent_feed, agent_result, ahist>>

\* ProgressLogger.log (lines 96-101) writes "[time] [level] message" as one
\* line of the feed.  The line by what the orchestrator can tell of it
\* (LineKinds): it holds the success marker, or the failure marker with some
\* text or with nothing after it, or no marker.  The level is no part of
\* what the orchestrator looks at.
KindOfLine(level, message) ==
  LET at(marker) == {i \in 1..Len(message) : message[i] = marker}
  IN IF at(MarkerComplete) # {} THEN "complete"
     ELSE IF at(MarkerFailed) = {} THEN "info"
     ELSE IF Min(at(MarkerFailed)) = Len(message) THEN "failed_empty"
     ELSE "failed_a"
\* ProgressLogger.action (lines 106-111): the entry of level ACTION with the
\* action and its details (a path, or command[:100], which is the command
\* for the commands here).
LogAction(details) ==
  /\ agent_feed' = Append(agent_feed, KindOfLine("ACTION", <<"action">> \o details))
  /\ ahist' = [ahist EXCEPT !.levels = Append(@, "ACTION")]
toolCallerVars ==
  <<orchestratorVars, apc, iteration, messages, tool_calls, tc_idx, task_completed,
    agent_result>>

\* _execute_tool, lines 977-986: the arguments are parsed and the tool looked
\* up; the error texts echo the arguments or the name, at any length.
ToolDispatch ==
  /\ tpc = "call"
  /\ IF ~tcall.json
     THEN /\ \E len \in 1..MaxTextLen : tresult' = Result("invalid_json", len)
          /\ tpc' = "returned"
     ELSE IF tcall.name = "no_tool"
     THEN /\ \E len \in 1..MaxTextLen : tresult' = Result("unknown_tool", len)
          /\ tpc' = "returned"
     ELSE /\ tpc' = "execute"
          /\ UNCHANGED tresult
  /\ UNCHANGED <<orchestratorAgentVars, tcall, touched>>

\* Lines 994-995: tool.execute raises (arguments that do not fit the
\* parameters, an error of the system outside the tool's own handlers); the
\* text has the exception in it, at any length.
ToolRaises ==
  /\ tpc = "execute"
  /\ \E len \in 1..MaxTextLen : tresult' = Result("error_executing", len)
  /\ tpc' = "returned"
  /\ UNCHANGED <<orchestratorAgentVars, tcall, touched>>

\* ReadFileTool, WriteFileTool, ListFilesTool, SearchFilesTool .execute
\* (lines 164-182, 220-236, 272-316, 347-380): the action is logged with the
\* path as it was given; a path that fails the check is
\* answered with the containment error before the file system is asked;
\* otherwise the full path is given to the file system, and the result is a
\* text or an error of the tool (the file does not exist, is too large, an
\* error caught in the tool, a search that timed out).
PathTool ==
  /\ tpc = "execute"
  /\ tcall.name \in PathTools
  /\ LogAction(Slashed(tcall.path.comps))
  /\ IF ~PathAllowed(tcall.path)
     THEN /\ \E len \in 1..MaxTextLen : tresult' = Result("outside", len)
          /\ UNCHANGED touched
     ELSE /\ touched' = {FullPath(tcall.path)}
          /\ \E kind \in {"text", "error_in_tool"} \cup
                         (IF tcall.name \in {"read_file", "list_files"}
                          THEN {"not_exist"} ELSE {})
                         \cup (IF tcall.name = "read_file" THEN {"too_large"} ELSE {}) :
               \E len \in 1..MaxTextLen : tresult' = Result(kind, len)
  /\ tpc' = "truncate"
  /\ UNCHANGED <<toolCallerVars, tcall>>

\* ExecuteCommandTool.execute with the validation v.
ExecuteCommandWith(v) ==
  /\ tpc = "execute"
  /\ tcall.name = "execute_command"
  /\ LogAction(tcall.command)
  /\ IF v # "OK"
     THEN /\ \E len \in 1..MaxTextLen : tresult' = Result(v, len)
          /\ UNCHANGED touched
     ELSE /\ touched' = {tcall.command}
          /\ \E kind \in {"text", "timeout", "error_in_tool"} :
               \E len \in 1..MaxTextLen : tresult' = Result(kind, len)
  /\ tpc' = "truncate"
  /\ UNCHANGED <<toolCallerVars, tcall>>

\* ExecuteCommandTool.execute (lines 446-481): the action is logged with the
\* command as it was given; a command that fails the
\* validation is answered with "Error: Command blocked"; otherwise it is
\* given to the shell, and the result is its output, the timeout error or
\* another error caught in the tool.
ExecuteCommand == ExecuteCommandWith(ValidateCommand(tcall.command))

\* Lines 989-993: a result of tool.execute that is longer than the cap is cut
\* to the cap and gets the marker.
ToolReturn ==
  /\ tpc = "truncate"
  /\ tresult' = IF tresult.len > OutputCap
                THEN [tresult EXCEPT !.len = OutputCap + MarkerLen, !.marker = TRUE]
                ELSE tresult
  /\ tpc' = "returned"
  /\ UNCHANGED <<orchestratorAgentVars, tcall, touched>>

\* One call of _execute_tool with any of the calls; the agent and the
\* orchestrator are left out.
InitTools ==
  /\ tpc = "call"
  /\ tcall \in ToolCalls
  /\ tresult = NoResult
  /\ touched = {}
  /\ WaitOff
  /\ apc = "off"
  /\ iteration = 0
  /\ messages = <<>>
  /\ tool_calls = <<>>
  /\ tc_idx = 0
  /\ task_completed = FALSE
  /\ agent_feed = <<>>
  /\ agent_result = FALSE
  /\ ahist = NoAgentHist
  /\ cur = <<>>
  /\ pc = [c \in Coros |-> "init"]
  /\ proxmoxConfigured = TRUE
  /\ hasDefaultModel = TRUE
  /\ proxmoxClient = TRUE
  /\ tasksOrder = <<1>>
  /\ status = [f \in Flows |-> "running"]
  /\ task_vmid = [f \in Flows |-> VmPoolStart]
  /\ vm_ip = [f \in Flows |-> "ip"]
  /\ result = [f \in Flows |-> "none"]
  /\ error = [f \in Flows |-> "none"]
  /\ progress_log = [f \in Flows |-> <<>>]
  /\ cav = [f \in Flows |-> NoCav]
  /\ xc = [f \in Flows |-> NoExec]
  /\ stream = [f \in Flows |-> NoStream]
  /\ dv = [c \in Coros |-> NoFrame]
  /\ sdList = <<>>
  /\ vms = {VmPoolStart}
  /\ guest = [v \in VmIds |-> [FreshGuest EXCEPT !.agent = TRUE, !.config = "written", !.name = 1]]
  /\ gx = [f \in Flows |-> NoGuestCmd]
  /\ hist = [f \in Flows |-> [NoHist EXCEPT !.cloned = TRUE]]

NextTools ==
  \/ ToolDispatch
  \/ ToolRaises
  \/ PathTool
  \/ ExecuteCommand
  \/ ToolReturn

SpecTools == InitTools /\ [][NextTools]_vars

\* ------------------------------------------- the polling waits with a clock
\* _wait_for_task, _wait_for_ip and the loop of _stream_agent_progress, each
\* with the time that has passed since its start (time.time() - start), in
\* units of its own sleep (2 s, 5 s, check_interval).  A sleep lasts one unit
\* or more; a query of the backend takes some time or none, and returns or
\* raises.  The clock is followed up to MaxElapsed, past which nothing
\* depends on it.  The chunks the progress loop yields are left out.
WaitKinds == {"task", "ip", "progress"}
MaxElapsed == WaitBound + 2
Later(t, d) == IF t + d > MaxElapsed THEN MaxElapsed ELSE t + d
otherThanWait ==
  <<cur, pc, configVars, proxmoxClient, taskVars, cav, xc, stream, dv, sdList,
    envVars, hist, apc, iteration, messages, tool_calls, tc_idx, task_completed,
    agent_feed, agent_result, ahist, toolVars>>

\* A wait whose query has returned or raised q: "go_on" (the task is not
\* stopped, the status query raised "does not exist", no address yet, the
\* guest agent raised, no marker in the feed, the poll raised) sends it to
\* its sleep, every other q ends the wait with that outcome.
Queried(q, failed, d) ==
  wait' = [wait EXCEPT !.elapsed = Later(@, d),
                       !.asked = TRUE,
                       !.allFailed = @ /\ failed,
                       !.pc = IF q = "go_on" THEN "sleep" ELSE "done",
                       !.outcome = IF q = "go_on" THEN @ ELSE q]
Ended(outcome) == wait' = [wait EXCEPT !.pc = "done", !.outcome = outcome]

\* _wait_for_task (lines 187-205), one turn of `while time.time() - start <
\* timeout`: the task has stopped with OK (return) or otherwise ("Task
\* failed", raised again by the handler), the query raised something without
\* "does not exist" in it (raised again), or the wait goes on; TimeoutError
\* after the loop.
WaitForTaskTurn ==
  /\ wait.kind = "task" /\ wait.pc = "loop"
  /\ IF wait.elapsed < WaitBound
     THEN \E d \in 0..1 :
            \/ Queried("ok", FALSE, d)
            \/ \E failed \in BOOLEAN : Queried("failed", failed, d)
            \/ \E failed \in BOOLEAN : Queried("go_on", failed, d)
     ELSE Ended("timeout")
  /\ UNCHANGED otherThanWait

\* _wait_for_ip (lines 207-229), one turn of its loop: an address (return),
\* or none and the query may have raised; None after the loop.
WaitForIpTurn ==
  /\ wait.kind = "ip" /\ wait.pc = "loop"
  /\ IF wait.elapsed < WaitBound
     THEN \E d \in 0..1 :
            \/ Queried("address", FALSE, d)
            \/ \E failed \in BOOLEAN : Queried("go_on", failed, d)
     ELSE Ended("null")
  /\ UNCHANGED otherThanWait

\* _stream_agent_progress (lines 612-652), one turn of `while True`: past the
\* deadline the timeout message and break; else the poll: a marker in the
\* feed (break), or none, or the poll raised.
StreamTurn ==
  /\ wait.kind = "progress" /\ wait.pc = "loop"
  /\ IF wait.elapsed > WaitBound
     THEN Ended("deadline")
     ELSE \E d \in 0..1 :
            \/ Queried("marker", FALSE, d)
            \/ \E failed \in BOOLEAN : Queried("go_on", failed, d)
  /\ UNCHANGED otherThanWait

\* The sleep of a wait that takes no time.
SleepOver_NoTime ==
  /\ wait.pc = "sleep"
  /\ wait' = [wait EXCEPT !.pc = "loop"]
  /\ UNCHANGED otherThanWait

\* await asyncio.sleep(...) of the three loops (lines 203, 226, 652) is over.
SleepOver ==
  /\ wait.pc = "sleep"
  /\ \E d \in 1..2 : wait' = [wait EXCEPT !.pc = "loop", !.elapsed = Later(@, d)]
  /\ UNCHANGED otherThanWait

InitWaits ==
  /\ \E kind \in WaitKinds : wait = [NoWait EXCEPT !.kind = kind, !.pc = "loop"]
  /\ tpc = "off"
  /\ tcall = NoCall
  /\ tresult = NoResult
  /\ touched = {}
  /\ apc = "off"
  /\ iteration = 0
  /\ messages = <<>>
  /\ tool_calls = <<>>
  /\ tc_idx = 0
  /\ task_completed = FALSE
  /\ agent_feed = <<>>
  /\ agent_result = FALSE
  /\ ahist = NoAgentHist
  /\ cur = <<>>
  /\ pc = [c \in Coros |-> "init"]
  /\ proxmoxConfigured = TRUE
  /\ hasDefaultModel = TRUE
  /\ proxmoxClient = TRUE
  /\ tasksOrder = <<1>>
  /\ status = [f \in Flows |-> "provisioning"]
  /\ task_vmid = [f \in Flows |-> 0]
  /\ vm_ip = [f \in Flows |-> "none"]
  /\ result = [f \in Flows |-> "none"]
  /\ error = [f \in Flows |-> "none"]
  /\ progress_log = [f \in Flows |-> <<>>]
  /\ cav = [f \in Flows |-> NoCav]
  /\ xc = [f \in Flows |-> NoExec]
  /\ stream = [f \in Flows |-> NoStream]
  /\ dv = [c \in Coros |-> NoFrame]
  /\ sdList = <<>>
  /\ vms = {}
  /\ guest = [v \in VmIds |-> FreshGuest]
  /\ gx = [f \in Flows |-> NoGuestCmd]
  /\ hist = [f \in Flows |-> NoHist]

NextWaits ==
  \/ WaitForTaskTurn
  \/ WaitForIpTurn
  \/ StreamTurn
  \/ SleepOver

SpecWaits == InitWaits /\ [][NextWaits]_vars
\* The event loop wakes a coroutine whose sleep is over, and a query of the
\* backend returns or raises.
SpecWaitsFair == SpecWaits /\ WF_vars(NextWaits)

\* ============================================================ properties
NonTerminal == TaskStatus \ Terminal

\* C1: for every task for which an environment was cloned (a task that
\* reached Provisioning or beyond), destroy_vm is called for that environment
\* at most once at any time, and exactly once by the time its flow has ended.
C1_DestroyExactlyOnce ==
  \A f \in Flows :
    hist[f].cloned =>
      /\ hist[f].destroyCalls <= 1
      /\ pc[f] = "done" => hist[f].destroyCalls = 1

\* C2: every task the orchestrator created is in one of the terminal states
\* Completed, Failed, Cancelled when its flow has ended.
C2_EndsTerminal ==
  \A f \in Flows : (pc[f] = "done" /\ status[f] # "none") => status[f] \in Terminal

\* C3: a task whose streaming ended at the global deadline ends Failed with a
\* timeout reason as its error (unless it was cancelled after that).
C3_DeadlineFails ==
  \A f \in Flows :
    (hist[f].deadline /\ status[f] \in {"completed", "failed"}) =>
      (status[f] = "failed" /\ error[f] = "timeout")

\* C4: a task is Completed only with a structured result that was retrieved
\* from the environment; a retrieval that raised, found no result file or
\* got no parseable text never ends in Completed.
C4_CompletedOnlyWithResult ==
  \A f \in Flows : status[f] = "completed" => result[f] = "success"

\* C5: a task whose error is the reason extracted after a terminal-failure
\* marker of the feed is never Completed.
C5_FailureMarkerFails ==
  \A f \in Flows : error[f] \in MarkerReasons => status[f] # "completed"

\* C6: every change of a task's status follows Pending -> Provisioning ->
\* Running -> Completing -> {Completed, Failed}, or leads from a non-terminal
\* state to Cancelled or Failed.
AllowedTransitions ==
  {<<"none", "pending">>, <<"pending", "provisioning">>, <<"provisioning", "running">>,
   <<"running", "completing">>, <<"completing", "completed">>}
  \cup (NonTerminal \X {"cancelled", "failed"})
C6_TransitionsAllowed ==
  [][\A f \in Flows :
       status'[f] # status[f] => <<status[f], status'[f]>> \in AllowedTransitions]_vars

\* C7: when the flow of a cancelled task has ended, destroy_vm has been
\* called for the environment that was cloned for the task.
C7_CancelDestroys ==
  \A f \in Flows :
    (status[f] = "cancelled" /\ pc[f] = "done" /\ hist[f].cloned) =>
      hist[f].destroyCalls >= 1

\* C8: when the result, failure or cancellation message of a task that holds
\* an environment has been handed to the caller, destroy_vm has been called
\* for that environment.
C8_DestroyBeforeReport ==
  \A f \in Flows :
    (hist[f].reported /\ task_vmid[f] # 0) => hist[f].destroyCalls >= 1

\* C9: no step of the teardown in the finally block, a destroy_vm that
\* raises included, changes the task's status, result or error.
InFinally(f) ==
  \/ pc[f] \in {"y_cleanup", "y_destroyed", "y_cleanfail"}
  \/ /\ pc[f] \in {"d_stop", "d_sleep5", "d_force", "d_sleep3", "d_delete",
                   "d_ret_ok", "d_ret_raise"}
     /\ dv[f].ret = "finally"
C9_TeardownFailureKeepsOutcome ==
  [][\A f \in Flows :
       InFinally(f) =>
         /\ status'[f] = status[f]
         /\ result'[f] = result[f]
         /\ error'[f] = error[f]]_vars
\* destroy_vm raised in the finally block of a task that is Completed with
\* its result.
C9_Witness ==
  \E f \in Flows :
    pc[f] = "y_cleanfail" /\ status[f] = "completed" /\ result[f] = "success"

\* C10: in a destroy_vm call that runs to its end, the forced stop is tried
\* only after the graceful stop failed and only with force on, the deletion
\* is tried whatever the stops did, and the call raises exactly when the
\* deletion failed.
C10_DestroyVmProtocol ==
  \A c \in Coros :
    /\ pc[c] = "d_force" => (dv[c].stop = "fail" /\ dv[c].force)
    /\ dv[c].forced # "none" => (dv[c].stop = "fail" /\ dv[c].force)
    /\ pc[c] \in {"d_ret_ok", "d_ret_raise"} =>
         /\ dv[c].stop # "none"
         /\ (dv[c].stop = "fail" /\ dv[c].force) => dv[c].forced # "none"
         /\ dv[c].del # "none"
         /\ pc[c] = "d_ret_raise" <=> dv[c].del = "fail"
\* The graceful stop failed with force off, and the deletion was done.
C10_Witness ==
  \E c \in Coros :
    /\ pc[c] = "d_ret_ok" /\ ~dv[c].force
    /\ dv[c].stop = "fail" /\ dv[c].forced = "none" /\ dv[c].del = "ok"

\* ------------------------------------------------- the progress relay
\* The lines a poll yields and appends to task.progress_log: `if line.strip()`.
NonBlankLines(lines) == SelectSeq(lines, LAMBDA l : l # "blank")
\* The flow is in the loop of _stream_agent_progress.
InStream(f) ==
  \/ pc[f] \in {"s_loop", "s_sleep", "s_deliver", "y_line", "s_check"}
  \/ pc[f] \in {"x_post", "x_sleep", "x_status", "x_ret", "x_exc"} /\ xc[f].ctx = "poll"
\* A line of that kind holds the success marker, the failure marker.
SuccessLine(content, i) == content[i] = "complete"
FailureLine(content, i) ==
  content[i] \in {"failed_a", "failed_b", "failed_empty", "failed_exhausted",
                  "failed_incomplete", "failed_clone", "failed_error"}
\* The entries this poll has appended to task.progress_log.
DeliveredInPoll(f) ==
  SubSeq(progress_log[f], stream[f].log0 + 1, Len(progress_log[f]))

\* C11 as stated: when a poll that read n lines with the cursor at c <= n has
\* delivered, it has delivered exactly n - c entries and the cursor is n.
C11_PollDeliversDelta ==
  \A f \in Flows :
    LET lines == SplitLines(stream[f].content)
    IN (pc[f] = "s_check" /\ stream[f].cursor0 <= Len(lines)) =>
         /\ Len(DeliveredInPoll(f)) = Len(lines) - stream[f].cursor0
         /\ stream[f].last_line_count = Len(lines)
\* C11: when a poll that read n lines with the cursor at c <= n has
\* delivered, it has delivered exactly the lines c+1..n that are not
\* whitespace-only, in their order, and the cursor is n; so a poll over
\* content with n = c delivers nothing and leaves the cursor where it was.
C11_PollDeliversNonBlankDelta ==
  \A f \in Flows :
    LET lines == SplitLines(stream[f].content)
    IN (pc[f] = "s_check" /\ stream[f].cursor0 <= Len(lines)) =>
         /\ DeliveredInPoll(f) =
              NonBlankLines(SubSeq(lines, stream[f].cursor0 + 1, Len(lines)))
         /\ stream[f].last_line_count = Len(lines)
\* A second poll has delivered past a whitespace-only line.
C11_Witness ==
  \E f \in Flows :
    LET lines == SplitLines(stream[f].content)
    IN /\ pc[f] = "s_check" /\ stream[f].cursor0 >= 1
       /\ Len(lines) > stream[f].cursor0 + 1
       /\ lines[stream[f].cursor0 + 1] = "blank"

\* C12: while the flow streams, task.progress_log is the lines that are not
\* whitespace-only of the first k lines of the agent's feed, in the order
\* the agent appended them (k the cursor, or the position of the for loop
\* while a poll delivers): no entry twice, none before an earlier one.  A
\* poll that raised leaves the cursor and task.progress_log as they are and
\* leads to the sleep before the next poll.
C12_RelayInOrder ==
  /\ [](\A f \in Flows :
          InStream(f) =>
            LET lines == SplitLines(guest[task_vmid[f]].feed)
                k == IF pc[f] \in {"s_deliver", "y_line"} THEN stream[f].idx - 1
                     ELSE stream[f].last_line_count
            IN /\ k <= Len(lines)
               /\ progress_log[f] = NonBlankLines(SubSeq(lines, 1, k)))
  /\ [][\A f \in Flows :
          (pc[f] = "x_exc" /\ xc[f].ctx = "poll") =>
            /\ pc'[f] = "s_sleep"
            /\ stream'[f].last_line_count = stream[f].last_line_count
            /\ progress_log'[f] = progress_log[f]]_vars
\* A poll raised after entries were delivered and the cursor moved.
C12_Witness ==
  \E f \in Flows :
    /\ pc[f] = "x_exc" /\ xc[f].ctx = "poll"
    /\ stream[f].last_line_count >= 2 /\ Len(progress_log[f]) >= 2
    /\ Len(guest[task_vmid[f]].feed) > stream[f].last_line_count

C14_SuccessDeliversEveryLine ==
  [][\A f \in Flows :
       (/\ pc[f] = "s_check"
        /\ \E i \in 1..Len(stream[f].content) : SuccessLine(stream[f].content, i)) =>
         /\ pc'[f] = "x_post" /\ xc'[f].ctx = "result"
         /\ progress_log[f] = SplitLines(stream[f].content)
         /\ error'[f] = "none"]_vars
\* C14: a poll whose content holds the success marker ends the streaming
\* with every line of the content that is not whitespace-only delivered, the
\* marker line included, and no failure reason on the task.
C14_SuccessDeliversNonBlank ==
  [][\A f \in Flows :
       (/\ pc[f] = "s_check"
        /\ \E i \in 1..Len(stream[f].content) : SuccessLine(stream[f].content, i)) =>
         /\ pc'[f] = "x_post" /\ xc'[f].ctx = "result"
         /\ progress_log[f] = NonBlankLines(SplitLines(stream[f].content))
         /\ \E i \in 1..Len(progress_log[f]) : progress_log[f][i] = "complete"
         /\ error'[f] = "none"]_vars
\* The streaming has ended on a success marker read behind a whitespace-only
\* line.
C14_Witness ==
  \E f \in Flows :
    /\ pc[f] = "x_post" /\ xc[f].ctx = "result" /\ error[f] = "none"
    /\ progress_log[f] = <<"info", "complete">>
    /\ guest[task_vmid[f]].feed = <<"info", "blank", "complete">>

C16_BoundedModelCalls ==
  /\ [](ahist.modelCalls <= MaxIterations /\ iteration <= MaxIterations)
  /\ <>(apc = "exited")
\* A run that made all of its model calls and has ended.
C16_Witness ==
  /\ apc = "exited"
  /\ ahist.modelCalls = MaxIterations
  /\ ~task_completed

\* The loop of CodingAgent.run has used up its iterations and run has
\* returned without completion.
Exhausted ==
  /\ apc \in {"after_run", "exited"}
  /\ iteration = MaxIterations
  /\ ~task_completed
ExhaustionReason == "Max iterations reached without completing task"

CorrectiveCount(msgs) == Cardinality({i \in 1..Len(msgs) : msgs[i] = CorrectiveTurn})
\* A step in which an exception is raised; one that reaches the handler of
\* the iteration; one that a tool raises and _execute_tool catches.
Raises == ahist'.exceptions > ahist.exceptions
RaisesToHandler == ahist'.handled > ahist.handled
RaisesInTool == Raises /\ ~RaisesToHandler

IdsOf(ids) == {ids[k] : k \in 1..Len(ids)}
PlaceIn(ids, id) == CHOOSE k \in 1..Len(ids) : ids[k] = id
\* The places of the tool turns of the call id in the conversation.
ToolTurnsOf(msgs, id) ==
  {i \in 1..Len(msgs) : msgs[i].role = "tool" /\ msgs[i].tool_call_id = id}
\* The assistant turns that hold tool calls.
CallingTurns(msgs) ==
  {p \in 1..Len(msgs) : msgs[p].role = "assistant" /\ msgs[p].tool_calls # <<>>}
\* The tool turns that follow place p without another turn in between.
ToolRun(msgs, p) ==
  {i \in (p + 1)..Len(msgs) : \A j \in (p + 1)..i : msgs[j].role = "tool"}

\* C19: the calls of one response are executed one after the other in the
\* order of the response.  Every executed call has exactly one tool turn
\* with its id; the tool turns of a response follow its assistant turn
\* directly, in the order of the calls.  A step that executes a call appends
\* that one tool turn, and the conversation is only ever appended to.
C19_ToolTurnsInOrder ==
  /\ [](/\ \A a \in 1..Len(ahist.executed) :
             /\ Cardinality(ToolTurnsOf(messages, ahist.executed[a])) = 1
             /\ \A b \in (a + 1)..Len(ahist.executed) :
                  ahist.executed[a] # ahist.executed[b]
        /\ \A p \in CallingTurns(messages) :
             LET ids == messages[p].tool_calls
             IN /\ Cardinality(ToolRun(messages, p)) <= Len(ids)
                /\ \A i \in ToolRun(messages, p) : messages[i].tool_call_id = ids[i - p]
                /\ \A id \in IdsOf(ids) : ToolTurnsOf(messages, id) \subseteq ToolRun(messages, p)
                /\ \A a, b \in 1..Len(ahist.executed) :
                     (/\ a < b
                      /\ ahist.executed[a] \in IdsOf(ids)
                      /\ ahist.executed[b] \in IdsOf(ids))
                     => PlaceIn(ids, ahist.executed[a]) < PlaceIn(ids, ahist.executed[b]))
  /\ [][/\ Len(messages') >= Len(messages)
        /\ SubSeq(messages', 1, Len(messages)) = messages
        /\ ahist'.executed # ahist.executed =>
             /\ ahist'.executed = Append(ahist.executed, CallId(iteration, tc_idx))
             /\ Len(messages') = Len(messages) + 1
             /\ messages'[Len(messages')].role = "tool"
             /\ messages'[Len(messages')].tool_call_id = CallId(iteration, tc_idx)]_vars
\* Both calls of the first response were executed, the second one raised:
\* the assistant turn and the two tool turns end the conversation.
C19_Witness ==
  /\ apc = "loop"
  /\ ahist.executed = <<CallId(0, 1), CallId(0, 2)>>
  /\ Len(messages) = 5
  /\ messages[3] = AssistantTurn(0, <<"other", "other">>)
  /\ messages[4] = ToolTurn(CallId(0, 1), "ok")
  /\ messages[5] = ToolTurn(CallId(0, 2), "raised")

\* C20: once a call of task_complete has been executed the run is marked
\* complete and run returns: no later call of that response is executed, no
\* turn is appended, no further model call is made.
C20_CompletionEndsRun ==
  /\ [](task_completed =>
          /\ apc \in {"after_run", "exited"}
          /\ tool_calls = <<>>
          /\ tc_idx = 0)
  /\ [][/\ (/\ apc = "tools"
            /\ tool_calls[tc_idx] = "task_complete"
            /\ ahist'.executed # ahist.executed)
           => (task_completed' /\ apc' = "after_run")
        /\ task_completed =>
             /\ task_completed'
             /\ ahist' = ahist
             /\ messages' = messages]_vars
\* task_complete was the first of the two calls of the first response: the
\* process has ended after one model call with the second call not executed.
C20_Witness ==
  /\ apc = "exited"
  /\ task_completed
  /\ agent_result
  /\ ahist.modelCalls = 1
  /\ ahist.executed = <<CallId(0, 1)>>
  /\ Len(messages[3].tool_calls) = 2
  /\ Len(messages) = 4

\* C21: whenever run has stopped on a call of task_complete, result.json has
\* been written and the success marker is in the feed, also when the
\* arguments of the call were malformed or the writing of the result failed.
C21_CompletionPersistsResult ==
  task_completed => (agent_result /\ HasComplete(agent_feed))

\* ---------------------------------------------------------------- the tools
\* The full path is the workspace root or lies below it.
InsideWorkspace(full) ==
  /\ Len(full) >= Len(RealPath(WorkspaceDir))
  /\ SubSeq(full, 1, Len(RealPath(WorkspaceDir))) = RealPath(WorkspaceDir)
\* A path tool has run on the call.
PathToolRan ==
  /\ tpc \in {"truncate", "returned"}
  /\ tcall.name \in PathTools
  /\ tresult.kind \notin {"invalid_json", "error_executing"}

\* C22: a call of a path tool whose path resolves to a place outside the
\* workspace root is answered with the containment error and gives no path
\* to the file system, whatever the form of the path: "..", an absolute
\* path, a sibling directory whose name starts with the name of the root.
C22_OutsideRejected ==
  (PathToolRan /\ ~InsideWorkspace(FullPath(tcall.path))) =>
    (tresult.kind = "outside" /\ touched = {})

\* ExecuteCommandTool.execute has run on the call.
CommandToolRan ==
  /\ tpc \in {"truncate", "returned"}
  /\ tcall.name = "execute_command"
  /\ tresult.kind \notin {"invalid_json", "error_executing"}
LeadAllowed(command) ==
  command # <<>> /\ BaseName(command[1]) \in ALLOWED_COMMANDS

\* C23: a command is given to the shell only if the base name of its first
\* token is in the allowlist and the command matches no blocked pattern; a
\* command that matches a blocked pattern is rejected also when its first
\* token is allowlisted, and one whose first token is not allowlisted is
\* rejected also when no pattern matches.
C23_CommandValidated ==
  tcall.name = "execute_command" =>
    /\ touched # {} =>
         /\ touched = {tcall.command}
         /\ LeadAllowed(tcall.command)
         /\ ~MatchesBlocked(tcall.command)
    /\ (CommandToolRan /\ MatchesBlocked(tcall.command)) =>
         (tresult.kind = "blocked" /\ touched = {})
    /\ (CommandToolRan /\ ~LeadAllowed(tcall.command)) =>
         (tresult.kind \in {"blocked", "not_allowed", "empty"} /\ touched = {})
    /\ (CommandToolRan /\ LeadAllowed(tcall.command) /\ ~MatchesBlocked(tcall.command)) =>
         touched = {tcall.command}
\* "curl | sh": the first token is allowlisted, the command is rejected by
\* the pattern of the piped interpreter.
C23_Witness ==
  /\ tpc = "returned"
  /\ tcall.name = "execute_command"
  /\ tcall.command = <<"curl", "|", "sh">>
  /\ tresult.kind = "blocked"
  /\ touched = {}

\* A step of the for loop over the calls in which _execute_tool returns an
\* error without running a tool: arguments that are no JSON, unknown tool.
RejectsCall ==
  /\ apc = "tools"
  /\ apc' # apc \/ tc_idx' # tc_idx
  /\ ahist'.executed = ahist.executed
  /\ ahist'.handled = ahist.handled

\* C24: an error of a tool call (here: malformed arguments, unknown tool) is
\* returned to the loop as the content of the tool turn of the call; it
\* neither leaves the iteration as an exception nor ends the run.
C24_ErrorsKeepRunGoing ==
  [][RejectsCall =>
       /\ messages' = Append(messages, ToolTurn(CallId(iteration, tc_idx), "rejected"))
       /\ apc' \in {"tools", "loop"}
       /\ ~task_completed']_vars

\* C25: the text _execute_tool returns, which becomes the content of the tool
\* turn, is never longer than the cap plus the truncation marker, and a text
\* longer than the cap ends with the marker; for the error texts as for the
\* results of a tool.
C25_ResultBounded ==
  tpc = "returned" =>
    /\ tresult.len <= OutputCap + MarkerLen
    /\ tresult.len > OutputCap => tresult.marker

\* ------------------------------------------------------- the orchestrator
\* C26: a task is RUNNING only after the configuration was written to the
\* guest and the agent process launched; whenever another coroutine can look
\* at the task (the event loop is idle), a RUNNING task has its agent started.
C26_RunningAfterLaunch ==
  \A f \in Flows :
    (Idle /\ status[f] = "running") =>
      (task_vmid[f] \in VmIds /\ guest[task_vmid[f]].agent)

\* C27: exec_command returns an answer only for a command that has come to
\* its end (the answer holds an exit code); it never returns the status of a
\* command that is still running.  (Stated for the answers of the status
\* query; json = "empty" is the answer of exec.post without a pid.)
C27_ExecReturnsCompleted ==
  \A f \in Flows : (pc[f] = "x_ret" /\ xc[f].json # "empty") => xc[f].exitcode

\* C28: a VM that got no address within the bound is provisioned all the
\* same, with task.vm_ip None, and every exec_command for it afterwards
\* (configuration write, launch, poll, result) fails at once, with nothing
\* submitted to the guest.
C28_NoAddressFailsFast ==
  [][\A f \in Flows :
       (vm_ip[f] = "none" /\ pc[f] = "x_post" /\ pc'[f] # "x_post") =>
         (pc'[f] = "x_exc" /\ guest' = guest /\ gx' = gx)]_vars

\* C30: a task in a terminal state carries its reason: a COMPLETED task has a
\* result, a FAILED or CANCELLED task has an error string.
C30_TerminalHasReason ==
  \A f \in Flows :
    /\ status[f] = "completed" => result[f] # "none"
    /\ status[f] \in {"failed", "cancelled"} => error[f] # "none"

C31_SubmitRegistersPending ==
  [][\A f \in Flows :
       (proxmoxConfigured /\ pc[f] = "init" /\ pc'[f] \notin {"init", "y_norepo"}) =>
         /\ tasksOrder' = Append(tasksOrder, f)
         /\ status'[f] = "pending"
         /\ pc'[f] = "y_header"]_vars

\* C32: the teardown needs no consumer.  Once a task that holds an
\* environment is in a terminal state, destroy_vm is called for it, also when
\* the consumer of the stream takes no further step.
C32_TeardownWithoutConsumer ==
  \A f \in Flows :
    (status[f] \in Terminal /\ task_vmid[f] # 0) ~> (hist[f].destroyCalls >= 1)

\* ------------------------------------------------------- the feed's markers
\* C33: a line of the feed in which the orchestrator finds a terminal marker
\* is a terminal entry of the agent process (logged by complete or by fail);
\* no entry of another level, whose text holds a path, a command or a
\* thought the model chose, ends the streaming or gives a failure reason.
C33_MarkersOnlyFromTerminalEntries ==
  \A i \in 1..Len(agent_feed) :
    (agent_feed[i] = "complete" \/ agent_feed[i] \in FailedKinds) =>
      ahist.levels[i] \in {"DONE", "FAIL"}

\* C34: when the agent process has exited, its feed holds a terminal marker
\* (the success marker or a failure marker), whatever way the run went.
C34_ExitLeavesMarker ==
  apc = "exited" => (HasComplete(agent_feed) \/ HasFailed(agent_feed))

\* The places of the terminal marker lines in a feed.
TerminalLines(feed) ==
  {i \in 1..Len(feed) : feed[i] = "complete" \/ feed[i] \in FailedKinds}

\* C35: one run of the agent process appends at most one terminal marker
\* line to the feed, and never both a success and a failure marker.
C35_AtMostOneMarker ==
  /\ Cardinality(TerminalLines(agent_feed)) <= 1
  /\ ~(HasComplete(agent_feed) /\ HasFailed(agent_feed))
\* C35 as the program has it: never both a success and a failure marker, at
\* most one success marker, at most two failure markers; where there are
\* two, the first is that of the exhaustion or of the failed clone, and the
\* second, the last line of the feed, is the "did not complete" marker main
\* writes after run returned.
C35_MarkersOfOneKind ==
  LET lines == TerminalLines(agent_feed)
  IN /\ ~(HasComplete(agent_feed) /\ HasFailed(agent_feed))
     /\ Cardinality(lines) <= 2
     /\ Cardinality(lines) = 2 =>
          /\ agent_feed[Min(lines)] \in {"failed_exhausted", "failed_clone"}
          /\ agent_feed[Max(lines)] = "failed_incomplete"
          /\ Max(lines) = Len(agent_feed)
          /\ apc = "exited"
\* A run that used up its iterations has exited with both failure markers.
C35_Witness ==
  /\ apc = "exited"
  /\ \E i \in 1..(Len(agent_feed) - 1) :
       agent_feed[i] = "failed_exhausted" /\ agent_feed[Len(agent_feed)] = "failed_incomplete"

\* ------------------------------------------------------------- the launch
\* C36: the agent process runs on a VM only when the write of the injected
\* configuration has completed there; it is never started beside a missing
\* or partly written task_config.json.
C36_LaunchAfterConfigWritten ==
  \A v \in VmIds : guest[v].agent => guest[v].config = "written"

\* ------------------------------------------------------------ on_shutdown
\* C37: on_shutdown passes over no task that holds an environment which
\* exists and for which no destroy_vm call has been issued, whatever the
\* status of the task.
C37_ShutdownDestroysAll ==
  [][(pc[ShutdownCoro] = "sd_loop" /\ sdList # <<>> /\ sdList' = Tail(sdList)) =>
       (task_vmid[Head(sdList)] \in vms => hist[Head(sdList)].destroyCalls >= 1)]_vars

\* ------------------------------------------------------- concurrent tasks
\* The VM id chosen for the task of flow f (0: none yet), and whether the VM
\* cloned for the task exists.
IdOf(f) == IF task_vmid[f] # 0 THEN task_vmid[f] ELSE cav[f].vmid
Live(f) == IdOf(f) \in vms /\ guest[IdOf(f)].name = f

Delivering(f) == pc[f] \in {"s_deliver", "y_line"}

\* C39: at every moment of the streaming, task.progress_log is, in order,
\* the lines that are not whitespace-only among the first last_line_count
\* lines of the feed.
C39_LogMatchesCursor ==
  \A f \in Flows :
    InStream(f) =>
      progress_log[f] =
        NonBlankLines(SubSeq(SplitLines(guest[task_vmid[f]].feed), 1,
                             stream[f].last_line_count))
\* C39 as the program has it: whenever no poll is delivering, the log is the
\* lines that are not whitespace-only among the first last_line_count lines
\* of the feed; while a poll delivers, the log is ahead of the cursor: it
\* holds those lines up to the position of the for loop, and the cursor
\* follows when the loop has ended.  The log changes only by one entry
\* appended at its end, and the cursor never decreases.
C39_LogFollowsFeed ==
  /\ [](\A f \in Flows :
          InStream(f) =>
            LET lines == SplitLines(guest[task_vmid[f]].feed)
                k == IF Delivering(f) THEN stream[f].idx - 1
                     ELSE stream[f].last_line_count
            IN /\ stream[f].last_line_count <= k /\ k <= Len(lines)
               /\ progress_log[f] = NonBlankLines(SubSeq(lines, 1, k)))
  /\ [][\A f \in Flows :
          /\ progress_log'[f] # progress_log[f] =>
               /\ Len(progress_log'[f]) = Len(progress_log[f]) + 1
               /\ SubSeq(progress_log'[f], 1, Len(progress_log[f])) = progress_log[f]
          /\ (InStream(f) /\ InStream(f)') =>
               stream'[f].last_line_count >= stream[f].last_line_count]_vars
\* A poll has delivered past a whitespace-only line: the cursor is ahead of
\* the number of entries.
C39_Witness ==
  \E f \in Flows :
    /\ pc[f] = "s_check"
    /\ stream[f].last_line_count = 3 /\ Len(progress_log[f]) = 2

====
